---- MODULE Spec2Model ----
(***************************************************************************)
(* TechStackDetector (src/lib/analyzer/tech-stack-detector.js).            *)
(*                                                                         *)
(* detect(projectPath) is modelled as one run over a project tree `fs`     *)
(* chosen at Init.  Every await-separated stage of detect() is one action. *)
(* Confidences are kept in hundredths (1.0 = 100, 0.7 = 70): every value   *)
(* the scoring functions return is a literal with at most two decimals.    *)
(* JavaScript lists are sequences; a project tree is a set of facts.       *)
(***************************************************************************)
EXTENDS Integers, Sequences, FiniteSets, TLC

VARIABLES
    fs,            \* the project tree: a set of facts, never written
    pc,            \* position of the detect() call
    languages,     \* detect(): const languages
    structure,     \* detect(): const projectAnalysis
    packageData,   \* detect(): const packageData
    projectType,   \* detect(): const projectType
    results,       \* performTargetedDetection(): const results
    resolved,      \* detect(): const resolved
    result,        \* the value detect() returns
    scored,        \* log of scorer invocations: <<category, name, confidence>>
    thrown,        \* an exception reached the catch of detect()
    det,           \* scoring harness: the detector under evaluation
    ev,            \* scoring harness: the evidence bag handed to it
    score,         \* scoring harness: the value its confidence function returned
    ind,           \* type harness: the indicator totals
    derived,       \* type harness: the type derived from them
    glob,          \* the order in which glob lists the files of the tree in this call
    first,         \* the value an earlier detect() call on the same tree returned
    calls,         \* how many times each category scorer was invoked in this call
    entry,         \* parse harness: one dependency entry of a Python manifest
    registered,    \* parse harness: the name readPythonDependencies adds for it
    other          \* a second detect() call on the same instance, while it is suspended

vars == <<fs, pc, languages, structure, packageData, projectType, results,
          resolved, result, scored, thrown, det, ev, score, ind, derived,
          glob, first, calls, entry, registered, other>>

----------------------------------------------------------------------------
(* Bounds *)

\* a project tree holds at most this many facts
MaxFacts == 2
\* largest indicator total the type harness draws
MaxIndicator == 6
\* an evidence bag of the scoring harness holds at most this many entries
MaxEvidence == 2
\* the largest number of facts a tree given to two detect() calls holds
MaxTwiceFacts == 3
\* the largest number of specifiers that follow the name in a dependency entry
MaxSpecifiers == 2

----------------------------------------------------------------------------
(* Generic list helpers (Array.prototype.includes / filter / some / Set) *)


Includes(s, x) == \E i \in 1..Len(s) : s[i] = x

RECURSIVE Filter(_, _)
\* s.filter(x => x \in keep), order preserved
Filter(s, keep) ==
    IF s = <<>> THEN <<>>
    ELSE IF Head(s) \in keep THEN <<Head(s)>> \o Filter(Tail(s), keep)
         ELSE Filter(Tail(s), keep)

RECURSIVE Without(_, _)
\* s.filter(x => !drop.includes(x)), order preserved
Without(s, drop) ==
    IF s = <<>> THEN <<>>
    ELSE IF Head(s) \in drop THEN Without(Tail(s), drop)
         ELSE <<Head(s)>> \o Without(Tail(s), drop)

RECURSIVE Dedup(_)
\* [...new Set(s)]: first occurrences, insertion order
Dedup(s) ==
    IF s = <<>> THEN <<>>
    ELSE <<Head(s)>> \o Dedup(Without(Tail(s), {Head(s)}))

Range(s) == {s[i] : i \in 1..Len(s)}

RECURSIVE Flatten(_)
Flatten(ss) == IF ss = <<>> THEN <<>> ELSE Head(ss) \o Flatten(Tail(ss))

RECURSIVE KSubsets(_, _)
\* all subsets of S with at most k elements
KSubsets(S, k) ==
    IF k = 0 THEN {{}}
    ELSE LET P == KSubsets(S, k - 1) IN P \cup {p \cup {x} : p \in P, x \in S}

Has(config, field) == field \in DOMAIN config

----------------------------------------------------------------------------
(* The project tree.  A fact is a record [k, v, p]:                        *)
(*   dep / devdep  package.json: v is a key of dependencies/devDependencies *)
(*   pkg           package.json: v is "bin", "main", "jest" (a truthy       *)
(*                 top-level field), "empty" ({}), or "invalid" (not JSON)  *)
(*   script        package.json scripts: v names the value (ScriptValue)    *)
(*   req           requirements.txt: v is one line of the file              *)
(*   dir           v is a directory under the root                          *)
(*   file          v is a file under the root; p a pattern its text holds   *)
(*   compose       docker-compose.yml: its text holds v                     *)
(*   env           .env: its text holds v                                   *)

Fact(k, v) == [k |-> k, v |-> v, p |-> ""]
FileWith(v, p) == [k |-> "file", v |-> v, p |-> p]

DepUniverse ==
    {"react", "react-dom", "vue", "next", "@angular/core",
     "express", "fastify", "koa", "@nestjs/core", "mongoose", "jest", "mocha"}
DevDepUniverse == {"express", "jest"}
PkgUniverse == {"bin", "main", "empty", "invalid"}
ScriptUniverse == {"next dev", "node server.js", "nonString"}
ReqUniverse == {"fastapi==0.104.1", "django", "flask", "uvicorn[standard]", "# comment"}
DirUniverse == {"api", "components", "tests", "k8s"}
FileUniverse ==
    {"app.ts", "main.py", "App.vue", "server.js", "next.config.js", "A.java",
     "a.test.js", ".python-version", "Dockerfile", "package-lock.json"}
FileTextUniverse ==
    {FileWith("server.js", "app.use("), FileWith("main.py", "from fastapi")}
ComposeUniverse == {"redis:", "mongo:", "image: postgres", "mysql:"}
EnvUniverse == {"mongodb://"}

Facts ==
    {Fact("dep", v) : v \in DepUniverse} \cup
    {Fact("devdep", v) : v \in DevDepUniverse} \cup
    {Fact("pkg", v) : v \in PkgUniverse} \cup
    {Fact("script", v) : v \in ScriptUniverse} \cup
    {Fact("req", v) : v \in ReqUniverse} \cup
    {Fact("dir", v) : v \in DirUniverse} \cup
    {Fact("file", v) : v \in FileUniverse} \cup
    FileTextUniverse \cup
    {Fact("compose", v) : v \in ComposeUniverse} \cup
    {Fact("env", v) : v \in EnvUniverse}

ManifestKinds == {"dep", "devdep", "pkg", "script"}

Of(tree, k) == {f.v : f \in {g \in tree : g.k = k}}

\* a file that is not JSON has no fields
WellFormed(tree) ==
    Fact("pkg", "invalid") \in tree =>
        \A f \in tree : f.k \in ManifestKinds => f = Fact("pkg", "invalid")

Trees == {t \in KSubsets(Facts, MaxFacts) : WellFormed(t)}

----------------------------------------------------------------------------
(* Evidence Collector: the probes *)

Null == [null |-> TRUE]

FilesOf(tree) ==
    Of(tree, "file")
    \cup (IF \E f \in tree : f.k \in ManifestKinds THEN {"package.json"} ELSE {})
    \cup (IF Of(tree, "req") # {} THEN {"requirements.txt"} ELSE {})
    \cup (IF Of(tree, "compose") # {} THEN {"docker-compose.yml"} ELSE {})
    \cup (IF Of(tree, "env") # {} THEN {".env"} ELSE {})

\* path.join(projectPath, name): a trailing separator of a directory name
\* does not change what fs.stat resolves
StatPath(name) ==
    CASE name = "components/" -> "components"
      [] name = "tests/" -> "tests"
      [] name = "k8s/" -> "k8s"
      [] OTHER -> name

\* fs.stat(path).isFile(), false on any failure
fileExists(tree, name) == StatPath(name) \in FilesOf(tree)

\* fs.stat(path).isDirectory(), false on any failure
dirExists(tree, name) == StatPath(name) \in Of(tree, "dir")

\* what glob(pattern, {cwd, nodir}) matches among the files of the universe
GlobTable(pattern) ==
    CASE pattern = "*.js" -> {"server.js", "next.config.js", "a.test.js"}
      [] pattern = "*.ts" -> {"app.ts"}
      [] pattern = "*.py" -> {"main.py", "test_a.py", "test_b.py", "test_c.py"}
      [] pattern = "test_*.py" -> {"test_a.py", "test_b.py", "test_c.py"}
      [] pattern = "*.java" -> {"A.java"}
      [] pattern = "*.vue" -> {"App.vue"}
      [] pattern = "server.js" -> {"server.js"}
      [] pattern = "main.py" -> {"main.py"}
      [] pattern = "**/main.py" -> {"main.py"}
      [] pattern = "*.test.js" -> {"a.test.js"}
      [] OTHER -> {}

\* the files some pattern of the registry can match
GlobFiles ==
    {"A.java", "App.vue", "a.test.js", "app.ts", "main.py", "next.config.js",
     "server.js", "test_a.py", "test_b.py", "test_c.py"}

RECURSIVE Perms(_)
Perms(S) ==
    IF S = {} THEN {<<>>}
    ELSE UNION {{<<x>> \o rest : rest \in Perms(S \ {x})} : x \in S}

\* the orders in which a glob walk can list the files of the tree: the code
\* passes no ordering option and does not sort what glob returns
GlobOrders(tree) == Perms(Of(tree, "file") \cap GlobFiles)

Min(a, b) == IF a <= b THEN a ELSE b

findFiles(tree, pattern, limit) ==
    LET files == Filter(glob, GlobTable(pattern) \cap FilesOf(tree))
    IN  SubSeq(files, 1, Min(limit, Len(files)))

DefaultLimit == 100

\* content.includes(pattern) on the text of a file of the tree
TextIncludes(tree, name, pattern) ==
    \/ FileWith(name, pattern) \in tree
    \/ name = "docker-compose.yml" /\ pattern \in Of(tree, "compose")
    \/ name = ".env" /\ pattern \in Of(tree, "env")

ScriptValue(v) == [isString |-> v # "nonString", text |-> v]

\* the order of the keys of "scripts" in the manifest text
ScriptOrder == <<"next dev", "nonString", "node server.js">>

\* JSON.parse of package.json, null when the file is missing or is not JSON
readPackageJson(tree) ==
    IF ~fileExists(tree, "package.json") \/ "invalid" \in Of(tree, "pkg")
    THEN Null
    ELSE [dependencies |-> Of(tree, "dep"),
          devDependencies |-> Of(tree, "devdep"),
          truthy |-> Of(tree, "pkg") \ {"empty"},
          scripts |-> [i \in 1..Len(Filter(ScriptOrder, Of(tree, "script"))) |->
                          ScriptValue(Filter(ScriptOrder, Of(tree, "script"))[i])]]

\* the characters of a requirements line, grouped into runs
Lex(line) ==
    CASE line = "fastapi==0.104.1" -> <<"fastapi", "=", "=", "0.104.1">>
      [] line = "uvicorn[standard]" -> <<"uvicorn", "[", "standard", "]">>
      [] line = "# comment" -> <<"#", " ", "comment">>
      [] OTHER -> <<line>>

\* /[>=<~!\[]/ of the requirements branch
ReqSplitChars == {">", "=", "<", "~", "!", "["}

\* /[\[<>=~!\s]/ of the pyproject branch
ProjectSplitChars == {"[", "<", ">", "=", "~", "!", " "}

RECURSIVE BeforeAny(_, _)
\* s.split(/[chars]/)[0]: the runs ahead of the first of the characters
BeforeAny(tokens, chars) ==
    IF tokens = <<>> \/ Head(tokens) \in chars THEN <<>>
    ELSE <<Head(tokens)>> \o BeforeAny(Tail(tokens), chars)

RECURSIVE TrimStart(_)
TrimStart(tokens) ==
    IF tokens # <<>> /\ Head(tokens) = " " THEN TrimStart(Tail(tokens)) ELSE tokens

RECURSIVE TrimEnd(_)
TrimEnd(tokens) ==
    IF tokens # <<>> /\ tokens[Len(tokens)] = " "
    THEN TrimEnd(SubSeq(tokens, 1, Len(tokens) - 1))
    ELSE tokens

\* s.trim()
Trim(tokens) == TrimEnd(TrimStart(tokens))

RECURSIVE Join(_)
\* the string the runs spell
Join(tokens) == IF tokens = <<>> THEN "" ELSE Head(tokens) \o Join(Tail(tokens))

\* one line of requirements.txt: the name it registers, "" for none
RequirementName(tokens) ==
    LET cleaned == Trim(tokens)
    IN  IF cleaned = <<>> \/ Head(cleaned) \in {"#", "-"} THEN ""
        ELSE Join(Trim(BeforeAny(cleaned, ReqSplitChars)))

\* one quoted string of a dependencies array of pyproject.toml: the name it
\* registers, "" for none
ProjectName(tokens) ==
    LET packageName == Join(Trim(BeforeAny(Trim(tokens), ProjectSplitChars)))
    IN  IF packageName = "python" THEN "" ELSE packageName

ReqName(line) == RequirementName(Lex(line))

readPythonDependencies(tree) ==
    IF fileExists(tree, "requirements.txt")
    THEN {ReqName(line) : line \in Of(tree, "req")} \ {""}
    ELSE {}

----------------------------------------------------------------------------
(* Detector Registry: the tables of initializeDetectors().  A table is a   *)
(* record keyed by detector name; its declaration order is kept beside it. *)

languageOrder == <<"javascript", "typescript", "python", "java", "go">>
languageDetectors ==
    [javascript |-> [patterns |-> <<"*.js", "*.mjs", "*.cjs">>,
                     configs |-> <<"package.json", ".npmrc">>],
     typescript |-> [patterns |-> <<"*.ts", "*.tsx", "*.d.ts">>,
                     configs |-> <<"tsconfig.json", "tsconfig.*.json">>,
                     packageIndicators |-> <<"typescript", "@types/">>],
     python |-> [patterns |-> <<"*.py">>,
                 configs |-> <<"requirements.txt", "setup.py", "pyproject.toml", "Pipfile">>,
                 indicators |-> <<"__init__.py", "manage.py">>],
     java |-> [patterns |-> <<"*.java">>,
               configs |-> <<"pom.xml", "build.gradle", "build.gradle.kts">>],
     go |-> [patterns |-> <<"*.go">>,
             configs |-> <<"go.mod", "go.sum">>]]

frontendOrder == <<"react", "vue", "angular", "nextjs">>
frontendDetectors ==
    [react |-> [dependencies |-> <<"react", "react-dom">>,
                devDependencies |-> <<"@types/react", "@testing-library/react">>,
                files |-> <<"*.jsx", "*.tsx">>,
                exclusiveWith |-> <<"vue", "angular", "svelte">>],
     vue |-> [dependencies |-> <<"vue", "vue@2", "vue@3">>,
              files |-> <<"*.vue">>,
              configs |-> <<"vue.config.js", "vite.config.js">>,
              indicators |-> <<"components/", "views/">>,
              exclusiveWith |-> <<"react", "angular", "svelte">>],
     angular |-> [dependencies |-> <<"@angular/core", "@angular/common">>,
                  files |-> <<"*.component.ts", "*.module.ts", "*.service.ts">>,
                  configs |-> <<"angular.json", ".angular-cli.json">>,
                  indicators |-> <<"src/app/">>,
                  exclusiveWith |-> <<"react", "vue", "svelte">>],
     nextjs |-> [dependencies |-> <<"next">>,
                 devDependencies |-> <<"eslint-config-next">>,
                 scripts |-> <<"next dev", "next build", "next start">>,
                 configs |-> <<"next.config.js", "next.config.mjs", "next.config.ts">>]]

backendOrder == <<"express", "fastify", "koa", "nestjs", "fastapi", "django", "flask">>
backendDetectors ==
    [express |-> [dependencies |-> <<"express">>,
                  relatedPackages |-> <<"body-parser", "cors", "helmet", "morgan",
                                        "compression", "cookie-parser">>,
                  codePatterns |-> <<"express()", "app.use(", "app.get(", "app.post(",
                                     "app.listen(">>,
                  files |-> <<"app.js", "server.js", "index.js">>,
                  exclusiveWith |-> <<"fastify", "koa", "hapi">>],
     fastify |-> [dependencies |-> <<"fastify">>,
                  codePatterns |-> <<"fastify()", "fastify.register">>,
                  exclusiveWith |-> <<"express", "koa", "hapi">>],
     koa |-> [dependencies |-> <<"koa">>,
              codePatterns |-> <<"koa()", "koa2", "app.use">>,
              relatedPackages |-> <<"koa-router", "koa-bodyparser", "koa-cors">>,
              exclusiveWith |-> <<"express", "fastify", "hapi">>],
     nestjs |-> [dependencies |-> <<"@nestjs/core", "@nestjs/common">>,
                 files |-> <<"*.controller.ts", "*.service.ts", "*.module.ts">>,
                 configs |-> <<"nest-cli.json">>,
                 indicators |-> <<"src/modules/", "src/controllers/">>],
     fastapi |-> [dependencies |-> <<"fastapi">>,
                  relatedPackages |-> <<"uvicorn", "starlette", "pydantic">>,
                  codePatterns |-> <<"FastAPI()", "@app.get", "@app.post", "@app.put",
                                     "@app.delete">>,
                  files |-> <<"main.py", "app.py", "**/main.py", "**/app.py">>,
                  configs |-> <<"pyproject.toml", "requirements.txt">>,
                  imports |-> <<"from fastapi", "import fastapi">>,
                  exclusiveWith |-> <<"django", "flask">>],
     django |-> [dependencies |-> <<"django", "Django">>,
                 relatedPackages |-> <<"djangorestframework", "django-cors-headers",
                                       "psycopg2", "psycopg2-binary">>,
                 files |-> <<"manage.py", "settings.py", "urls.py", "**/settings.py",
                             "**/urls.py">>,
                 configs |-> <<"django.conf", "requirements.txt", "pyproject.toml">>,
                 indicators |-> <<"*/migrations/", "apps/", "settings/">>,
                 imports |-> <<"from django", "import django", "django.conf">>,
                 exclusiveWith |-> <<"fastapi", "flask">>],
     flask |-> [dependencies |-> <<"flask", "Flask">>,
                relatedPackages |-> <<"flask-restful", "flask-cors", "flask-sqlalchemy",
                                      "gunicorn">>,
                codePatterns |-> <<"Flask(__name__)", "@app.route", "app = Flask">>,
                files |-> <<"app.py", "main.py", "run.py", "**/app.py">>,
                configs |-> <<"requirements.txt", "pyproject.toml">>,
                imports |-> <<"from flask", "import flask">>,
                exclusiveWith |-> <<"fastapi", "django">>]]

databaseOrder == <<"mongodb", "postgresql", "mysql", "redis">>
databaseDetectors ==
    [mongodb |-> [dependencies |-> <<"mongodb", "mongoose">>,
                  connectionStrings |-> <<"mongodb://", "mongodb+srv://">>,
                  dockerServices |-> <<"mongo", "mongodb">>,
                  envVars |-> <<"MONGO_URI", "MONGODB_URI", "DATABASE_URL">>],
     postgresql |-> [dependencies |-> <<"pg", "postgres", "typeorm", "sequelize", "prisma",
                                        "@prisma/client", "psycopg2", "psycopg2-binary",
                                        "psycopg", "asyncpg", "sqlmodel", "sqlalchemy">>,
                     connectionStrings |-> <<"postgres://", "postgresql://">>,
                     dockerServices |-> <<"postgres", "postgresql">>,
                     envVars |-> <<"DATABASE_URL", "POSTGRES_DB", "PG_CONNECTION",
                                   "POSTGRESQL_URL">>],
     mysql |-> [dependencies |-> <<"mysql", "mysql2">>,
                connectionStrings |-> <<"mysql://">>,
                dockerServices |-> <<"mysql", "mariadb">>],
     redis |-> [dependencies |-> <<"redis", "ioredis", "bull", "bee-queue">>,
                connectionStrings |-> <<"redis://">>,
                dockerServices |-> <<"redis">>]]

testingOrder == <<"jest", "mocha", "cypress", "playwright", "pytest", "unittest">>
testingDetectors ==
    [jest |-> [dependencies |-> <<"jest", "@types/jest">>,
               devDependencies |-> <<"jest", "ts-jest", "babel-jest">>,
               configs |-> <<"jest.config.js", "jest.config.ts", "jest.config.json">>,
               packageJsonConfig |-> "jest",
               files |-> <<"*.test.js", "*.test.ts", "*.spec.js", "*.spec.ts">>],
     mocha |-> [dependencies |-> <<"mocha">>,
                devDependencies |-> <<"mocha", "chai", "sinon">>,
                configs |-> <<".mocharc.js", ".mocharc.json", "mocha.opts">>,
                files |-> <<"*.test.js", "*.spec.js">>],
     cypress |-> [dependencies |-> <<"cypress">>,
                  configs |-> <<"cypress.json", "cypress.config.js">>,
                  directories |-> <<"cypress/integration", "cypress/e2e">>],
     playwright |-> [dependencies |-> <<"@playwright/test">>,
                     configs |-> <<"playwright.config.js", "playwright.config.ts">>],
     pytest |-> [dependencies |-> <<"pytest">>,
                 relatedPackages |-> <<"pytest-cov", "pytest-asyncio", "pytest-mock",
                                       "httpx">>,
                 configs |-> <<"pytest.ini", "pyproject.toml", "setup.cfg">>,
                 files |-> <<"test_*.py", "*_test.py", "tests/*.py">>,
                 directories |-> <<"tests/", "test/">>],
     unittest |-> [files |-> <<"test_*.py", "*_test.py", "tests/*.py">>,
                   directories |-> <<"tests/", "test/">>,
                   codePatterns |-> <<"unittest.TestCase", "import unittest",
                                      "from unittest">>]]

buildToolOrder == <<"webpack", "vite", "poetry", "uv", "setuptools">>
buildToolDetectors ==
    [webpack |-> [dependencies |-> <<"webpack", "webpack-cli">>,
                  configs |-> <<"webpack.config.js", "webpack.config.ts">>],
     vite |-> [dependencies |-> <<"vite">>,
               configs |-> <<"vite.config.js", "vite.config.ts">>],
     poetry |-> [configs |-> <<"pyproject.toml", "poetry.lock">>,
                 indicators |-> <<"poetry.toml">>],
     uv |-> [configs |-> <<"pyproject.toml", "uv.lock">>,
             indicators |-> <<".python-version", "uv.toml">>],
     setuptools |-> [configs |-> <<"setup.py", "setup.cfg", "pyproject.toml">>,
                     files |-> <<"MANIFEST.in">>]]

deploymentOrder == <<"docker", "kubernetes", "githubActions">>
deploymentDetectors ==
    [docker |-> [files |-> <<"Dockerfile", "docker-compose.yml", "docker-compose.yaml">>,
                 configs |-> <<".dockerignore">>],
     kubernetes |-> [files |-> <<"k8s/", "kubernetes/">>,
                     patterns |-> <<"kind: Deployment", "kind: Service", "kind: Pod">>,
                     configs |-> <<"skaffold.yaml", "helm/Chart.yaml">>],
     githubActions |-> [files |-> <<".github/workflows/*.yml", ".github/workflows/*.yaml">>]]

\* this.mutualExclusions, in declaration order
mutualExclusionOrder == <<"react", "vue", "angular", "express", "jest", "webpack">>
mutualExclusions ==
    [react |-> <<"vue", "angular", "svelte">>,
     vue |-> <<"react", "angular", "svelte">>,
     angular |-> <<"react", "vue", "svelte">>,
     express |-> <<"fastify", "koa", "hapi">>,
     jest |-> <<"mocha", "jasmine", "ava">>,
     webpack |-> <<"parcel">>]

----------------------------------------------------------------------------
(* Scoring functions: the confidence closures of the registry *)

EmptyEvidence ==
    [files |-> <<>>, configs |-> <<>>, packageIndicators |-> <<>>, indicators |-> <<>>,
     dependencies |-> <<>>, devDependencies |-> <<>>, codePatterns |-> <<>>,
     relatedPackages |-> <<>>, scripts |-> <<>>, imports |-> <<>>,
     connectionStrings |-> <<>>, dockerServices |-> <<>>, envVars |-> <<>>,
     directories |-> <<>>, patterns |-> <<>>, packageJsonConfig |-> FALSE,
     isBackendOnly |-> FALSE, isFrontendOnly |-> FALSE]

\* the strings of the universe that hold `sub` as a proper substring
Superstrings(sub) ==
    CASE sub = "react" -> {"react-dom", "@types/react", "@testing-library/react"}
      [] sub = "angular" -> {"@angular/core", "@angular/common"}
      [] sub = "next" -> {"next dev", "next build", "next start", "eslint-config-next"}
      [] sub = "vue" -> {"vue@2", "vue@3"}
      [] sub = "mysql" -> {"mysql2"}
      [] sub = "docker-compose" -> {"docker-compose.yml", "docker-compose.yaml"}
      [] sub = "@types/" -> {"@types/node", "@types/react", "@types/jest"}
      [] OTHER -> {}

\* s.includes(sub) on strings
StrIncludes(s, sub) == s = sub \/ s \in Superstrings(sub)

\* s.startsWith(prefix) on strings
StartsWith(s, prefix) ==
    CASE prefix = "vue" -> s \in {"vue", "vue@2", "vue@3"}
      [] prefix = "mysql" -> s \in {"mysql", "mysql2"}
      [] OTHER -> s = prefix

Some(s, P(_)) == \E i \in 1..Len(s) : P(s[i])

languageConfidence(lang, evidence) ==
    CASE lang = "javascript" ->
            IF Includes(evidence.configs, "package.json") THEN 100
            ELSE IF Len(evidence.files) > 0 THEN 80 ELSE 0
      [] lang = "typescript" ->
            IF Includes(evidence.configs, "tsconfig.json") THEN 100
            ELSE IF Len(evidence.packageIndicators) > 0 THEN 90
            ELSE IF Len(evidence.files) > 0 THEN 70 ELSE 0
      [] lang = "python" ->
            IF Len(evidence.configs) > 0 THEN 100
            ELSE IF Includes(evidence.indicators, "manage.py") THEN 95
            ELSE IF Len(evidence.files) > 5 THEN 80 ELSE 60
      [] lang = "java" ->
            IF Len(evidence.configs) > 0 THEN 100
            ELSE IF Len(evidence.files) > 0 THEN 50 ELSE 0
      [] lang = "go" ->
            IF Includes(evidence.configs, "go.mod") THEN 100
            ELSE IF Len(evidence.files) > 0 THEN 60 ELSE 0

\* the table with the angular config branch tested ahead of the dependency
frontendConfidenceConfigFirst(name, evidence) ==
    CASE name = "react" ->
            IF ~evidence.isBackendOnly /\ Includes(evidence.dependencies, "react") THEN 100
            ELSE IF ~evidence.isBackendOnly /\ Includes(evidence.dependencies, "react-dom")
                 THEN 95
            ELSE 0
      [] name = "vue" ->
            IF Some(evidence.dependencies, LAMBDA d : StartsWith(d, "vue")) THEN 100
            ELSE IF Len(evidence.files) > 0 THEN 90 ELSE 0
      [] name = "angular" ->
            IF Includes(evidence.configs, "angular.json") THEN 95
            ELSE IF Includes(evidence.dependencies, "@angular/core") THEN 100 ELSE 0
      [] name = "nextjs" ->
            IF Includes(evidence.dependencies, "next") THEN 100
            ELSE IF Len(evidence.scripts) > 0
                    /\ Some(evidence.scripts, LAMBDA x : StrIncludes(x, "next")) THEN 95
            ELSE IF Len(evidence.configs) > 0 THEN 90 ELSE 0

frontendConfidence(name, evidence) ==
    CASE name = "react" ->
            IF ~evidence.isBackendOnly /\ Includes(evidence.dependencies, "react") THEN 100
            ELSE IF ~evidence.isBackendOnly /\ Includes(evidence.dependencies, "react-dom")
                 THEN 95
            ELSE 0
      [] name = "vue" ->
            IF Some(evidence.dependencies, LAMBDA d : StartsWith(d, "vue")) THEN 100
            ELSE IF Len(evidence.files) > 0 THEN 90 ELSE 0
      [] name = "angular" ->
            IF Includes(evidence.dependencies, "@angular/core") THEN 100
            ELSE IF Includes(evidence.configs, "angular.json") THEN 95 ELSE 0
      [] name = "nextjs" ->
            IF Includes(evidence.dependencies, "next") THEN 100
            ELSE IF Len(evidence.scripts) > 0
                    /\ Some(evidence.scripts, LAMBDA x : StrIncludes(x, "next")) THEN 95
            ELSE IF Len(evidence.configs) > 0 THEN 90 ELSE 0

backendConfidence(name, evidence) ==
    CASE name = "express" ->
            IF Includes(evidence.dependencies, "express") THEN 100
            ELSE IF Len(evidence.relatedPackages) >= 3 THEN 90
            ELSE IF Len(evidence.relatedPackages) >= 2 THEN 70
            ELSE IF Len(evidence.codePatterns) > 0 THEN 80 ELSE 0
      [] name = "fastify" ->
            IF Includes(evidence.dependencies, "fastify") THEN 100
            ELSE IF Len(evidence.codePatterns) > 0 THEN 70 ELSE 0
      [] name = "koa" ->
            IF Includes(evidence.dependencies, "koa") THEN 100
            ELSE IF Len(evidence.codePatterns) > 0 THEN 70 ELSE 0
      [] name = "nestjs" ->
            IF Includes(evidence.dependencies, "@nestjs/core") THEN 100
            ELSE IF Includes(evidence.configs, "nest-cli.json") THEN 90
            ELSE IF Len(evidence.files) > 3 THEN 80 ELSE 0
      [] name = "fastapi" ->
            IF Includes(evidence.dependencies, "fastapi") THEN 100
            ELSE IF Includes(evidence.relatedPackages, "uvicorn")
                    /\ Includes(evidence.relatedPackages, "pydantic") THEN 95
            ELSE IF Len(evidence.codePatterns) > 0 THEN 90
            ELSE IF Len(evidence.imports) > 0 THEN 85 ELSE 0
      [] name = "django" ->
            IF Includes(evidence.dependencies, "django")
               \/ Includes(evidence.dependencies, "Django") THEN 100
            ELSE IF Includes(evidence.files, "manage.py") THEN 98
            ELSE IF Some(evidence.indicators, LAMBDA i : Includes(evidence.indicators, i))
                 THEN 95
            ELSE IF Includes(evidence.relatedPackages, "djangorestframework") THEN 90 ELSE 0
      [] name = "flask" ->
            IF Includes(evidence.dependencies, "flask")
               \/ Includes(evidence.dependencies, "Flask") THEN 100
            ELSE IF Len(evidence.codePatterns) > 0 THEN 90
            ELSE IF Len(evidence.imports) > 0 THEN 85
            ELSE IF Some(evidence.relatedPackages,
                         LAMBDA pkg : pkg \in {"flask-restful", "flask-cors"}) THEN 80
            ELSE 0

databaseConfidence(db, evidence) ==
    CASE db = "mongodb" ->
            IF Includes(evidence.dependencies, "mongoose") THEN 100
            ELSE IF Includes(evidence.dependencies, "mongodb") THEN 95
            ELSE IF Len(evidence.dockerServices) > 0 THEN 80
            ELSE IF Len(evidence.connectionStrings) > 0 THEN 90 ELSE 0
      [] db = "postgresql" ->
            IF Includes(evidence.dependencies, "pg") THEN 100
            ELSE IF Some(evidence.dependencies,
                         LAMBDA d : d \in {"psycopg2", "psycopg2-binary", "psycopg",
                                           "asyncpg"}) THEN 100
            ELSE IF Includes(evidence.dependencies, "sqlmodel") THEN 95
            ELSE IF Includes(evidence.dependencies, "sqlalchemy") THEN 90
            ELSE IF Includes(evidence.dependencies, "typeorm") THEN 90
            ELSE IF Len(evidence.dockerServices) > 0 THEN 85 ELSE 0
      [] db = "mysql" ->
            IF Some(evidence.dependencies, LAMBDA d : StartsWith(d, "mysql")) THEN 100
            ELSE IF Len(evidence.dockerServices) > 0 THEN 80 ELSE 0
      [] db = "redis" ->
            IF Includes(evidence.dependencies, "ioredis") THEN 100
            ELSE IF Includes(evidence.dependencies, "redis") THEN 95
            ELSE IF Includes(evidence.dependencies, "bull") THEN 90 ELSE 0

testingConfidence(test, evidence) ==
    CASE test = "jest" ->
            IF Includes(evidence.dependencies, "jest") THEN 100
            ELSE IF Len(evidence.configs) > 0 THEN 95
            ELSE IF evidence.packageJsonConfig THEN 95
            ELSE IF Len(evidence.files) > 0 THEN 70 ELSE 0
      [] test = "mocha" ->
            IF Includes(evidence.dependencies, "mocha") THEN 100
            ELSE IF Len(evidence.configs) > 0 THEN 90 ELSE 0
      [] test = "cypress" ->
            IF Includes(evidence.dependencies, "cypress") THEN 100
            ELSE IF Len(evidence.configs) > 0 THEN 90 ELSE 0
      [] test = "playwright" ->
            IF Includes(evidence.dependencies, "@playwright/test") THEN 100
            ELSE IF Len(evidence.configs) > 0 THEN 90 ELSE 0
      [] test = "pytest" ->
            IF Includes(evidence.dependencies, "pytest") THEN 100
            ELSE IF Some(evidence.configs, LAMBDA c : c \in {"pytest.ini", "pyproject.toml"})
                 THEN 90
            ELSE IF Len(evidence.files) > 0 THEN 80
            ELSE IF Len(evidence.directories) > 0 THEN 70 ELSE 0
      [] test = "unittest" ->
            IF Len(evidence.codePatterns) > 0 THEN 90
            ELSE IF Len(evidence.files) > 0 /\ Len(evidence.directories) > 0 THEN 70
            ELSE IF Len(evidence.files) > 0 THEN 50 ELSE 0

buildToolConfidence(tool, evidence) ==
    CASE tool = "webpack" ->
            IF Includes(evidence.dependencies, "webpack") THEN 100
            ELSE IF Len(evidence.configs) > 0 THEN 80 ELSE 0
      [] tool = "vite" ->
            IF Includes(evidence.dependencies, "vite") THEN 100
            ELSE IF Len(evidence.configs) > 0 THEN 90 ELSE 0
      [] tool = "poetry" ->
            IF Includes(evidence.configs, "poetry.lock") THEN 100
            ELSE IF Includes(evidence.configs, "pyproject.toml") THEN 80 ELSE 0
      [] tool = "uv" ->
            IF Includes(evidence.configs, "uv.lock") THEN 100
            ELSE IF Includes(evidence.indicators, ".python-version") THEN 70 ELSE 0
      [] tool = "setuptools" ->
            IF Includes(evidence.configs, "setup.py") THEN 100
            ELSE IF Includes(evidence.configs, "setup.cfg") THEN 90 ELSE 0

\* the table with the signals of a detector added up
deploymentConfidenceAdditive(deployment, evidence) ==
    CASE deployment = "docker" ->
            (IF Includes(evidence.files, "Dockerfile") THEN 100 ELSE 0)
            + (IF Some(evidence.files, LAMBDA f : StrIncludes(f, "docker-compose"))
               THEN 95 ELSE 0)
      [] deployment = "kubernetes" ->
            (IF Len(evidence.files) > 0 THEN 90 ELSE 0)
            + (IF Len(evidence.patterns) > 0 THEN 95 ELSE 0)
      [] deployment = "githubActions" ->
            IF Len(evidence.files) > 0 THEN 100 ELSE 0

deploymentConfidence(deployment, evidence) ==
    CASE deployment = "docker" ->
            IF Includes(evidence.files, "Dockerfile") THEN 100
            ELSE IF Some(evidence.files, LAMBDA f : StrIncludes(f, "docker-compose")) THEN 95
            ELSE 0
      [] deployment = "kubernetes" ->
            IF Len(evidence.files) > 0 THEN 90
            ELSE IF Len(evidence.patterns) > 0 THEN 95 ELSE 0
      [] deployment = "githubActions" ->
            IF Len(evidence.files) > 0 THEN 100 ELSE 0

Threshold == 70

AcceptedStrict(confidence) == confidence > Threshold

\* `confidence >= 0.7`, the acceptance test of every scorer
Accepted(confidence) == confidence >= Threshold

----------------------------------------------------------------------------
(* Confidence Scorer: evidence gathering and acceptance, per category *)

Map(s, F(_)) == [i \in 1..Len(s) |-> F(s[i])]

Field(config, field) == IF Has(config, field) THEN config[field] ELSE <<>>

RECURSIVE InsertByConfidence(_, _)
InsertByConfidence(sorted, d) ==
    IF sorted = <<>> THEN <<d>>
    ELSE IF Head(sorted).confidence >= d.confidence
         THEN <<Head(sorted)>> \o InsertByConfidence(Tail(sorted), d)
         ELSE <<d>> \o sorted

RECURSIVE SortByConfidence(_)
\* detected.sort((a, b) => b.confidence - a.confidence): descending, stable
SortByConfidence(detected) ==
    IF detected = <<>> THEN <<>>
    ELSE InsertByConfidence(SortByConfidence(SubSeq(detected, 1, Len(detected) - 1)),
                            detected[Len(detected)])

Detection(name, confidence, evidence) ==
    [name |-> name, confidence |-> confidence, evidence |-> evidence]

\* the detections a scorer keeps, in scoring order
Keep(all) == SelectSeq(all, LAMBDA d : Accepted(d.confidence))

Names(detected) == Map(detected, LAMBDA d : d.name)

\* every file the patterns match, pattern by pattern
FilesMatching(tree, patterns, limit) ==
    Flatten(Map(patterns, LAMBDA pattern : findFiles(tree, pattern, limit)))

\* the entries of `names` that exist as files (or directories) of the tree
ExistingFiles(tree, names) == SelectSeq(names, LAMBDA n : fileExists(tree, n))
ExistingDirs(tree, names) == SelectSeq(names, LAMBDA n : dirExists(tree, n))

\* Object.keys({...dependencies, ...devDependencies})
AllDeps(pkg) == pkg.dependencies \cup pkg.devDependencies

\* detectLanguages reads pkg.dependencies of a manifest that did not parse
languageThrows(tree, lang) ==
    LET config == languageDetectors[lang]
    IN  /\ Has(config, "packageIndicators")
        /\ Includes(ExistingFiles(tree, Field(config, "configs")), "package.json")
        /\ readPackageJson(tree) = Null

languageEvidence(tree, lang) ==
    LET config == languageDetectors[lang]
        configs == ExistingFiles(tree, Field(config, "configs"))
        pkg == readPackageJson(tree)
    IN  [EmptyEvidence EXCEPT
            !.files = FilesMatching(tree, config.patterns, DefaultLimit),
            !.configs = configs,
            !.packageIndicators =
                IF Has(config, "packageIndicators") /\ Includes(configs, "package.json")
                   /\ pkg # Null
                THEN SelectSeq(config.packageIndicators,
                               LAMBDA indicator :
                                   \E dep \in AllDeps(pkg) : StrIncludes(dep, indicator))
                ELSE <<>>]

\* every language detector with the confidence it scored
scoreLanguages(tree) ==
    Map(languageOrder,
        LAMBDA lang : Detection(lang, languageConfidence(lang, languageEvidence(tree, lang)),
                                languageEvidence(tree, lang)))

\* the accepted languages in the order the loop appended them
detectLanguagesArrival(tree) == Names(Keep(scoreLanguages(tree)))

detectLanguages(tree) == Names(SortByConfidence(Keep(scoreLanguages(tree))))

\* scripts.some(s => s.includes(word)) raises on the first value that is not
\* a string, unless an earlier value already matched
RECURSIVE SomeIncludes(_, _)
SomeIncludes(values, word) ==
    IF values = <<>> THEN "false"
    ELSE IF ~Head(values).isString THEN "throws"
    ELSE IF StrIncludes(Head(values).text, word) THEN "true"
    ELSE SomeIncludes(Tail(values), word)

\* script.split(' ')[0]
FirstWord(script) ==
    IF script \in {"next dev", "next build", "next start"} THEN "next" ELSE script

frameworkThrows(config, pkg) ==
    /\ pkg # Null
    /\ Has(config, "dependencies")
    /\ Has(config, "scripts")
    /\ pkg.scripts # <<>>
    /\ Some(config.scripts, LAMBDA script : SomeIncludes(pkg.scripts, FirstWord(script)) = "throws")

\* the first files of the list, read for code patterns and imports
SampleSize == 3

Found(tree, files, patterns) ==
    Flatten(Map(files, LAMBDA file :
        SelectSeq(patterns, LAMBDA pattern : TextIncludes(tree, file, pattern))))

frameworkEvidence(tree, config, pkg, type, pythonDependencies) ==
    LET node == pkg # Null /\ Has(config, "dependencies")
        python == pythonDependencies # {} /\ Has(config, "dependencies")
        files == FilesMatching(tree, Field(config, "files"), DefaultLimit)
        sampled == (Has(config, "codePatterns") \/ Has(config, "imports")) /\ Len(files) > 0
        sampleFiles == SubSeq(files, 1, Min(SampleSize, Len(files)))
    IN  [EmptyEvidence EXCEPT
            !.dependencies =
                (IF node THEN Filter(config.dependencies, pkg.dependencies) ELSE <<>>)
                \o (IF python THEN Filter(config.dependencies, pythonDependencies) ELSE <<>>),
            !.devDependencies =
                IF node THEN Filter(Field(config, "devDependencies"), pkg.devDependencies)
                ELSE <<>>,
            !.relatedPackages =
                (IF node THEN Filter(Field(config, "relatedPackages"), AllDeps(pkg)) ELSE <<>>)
                \o (IF python THEN Filter(Field(config, "relatedPackages"), pythonDependencies)
                    ELSE <<>>),
            !.scripts =
                IF node /\ Has(config, "scripts") /\ pkg.scripts # <<>>
                THEN SelectSeq(config.scripts, LAMBDA script :
                         SomeIncludes(pkg.scripts, FirstWord(script)) = "true")
                ELSE <<>>,
            !.files = files,
            !.configs = ExistingFiles(tree, Field(config, "configs")),
            !.indicators = ExistingDirs(tree, Field(config, "indicators")),
            !.codePatterns =
                IF sampled THEN Dedup(Found(tree, sampleFiles, Field(config, "codePatterns")))
                ELSE <<>>,
            !.imports =
                IF sampled THEN Dedup(Found(tree, sampleFiles, Field(config, "imports")))
                ELSE <<>>,
            !.isBackendOnly = type.isBackendOnly,
            !.isFrontendOnly = type.isFrontendOnly]

scoreFrontend(tree, pkg, type) ==
    Map(frontendOrder, LAMBDA name :
        LET evidence == frameworkEvidence(tree, frontendDetectors[name], pkg, type,
                                          readPythonDependencies(tree))
        IN  Detection(name, frontendConfidence(name, evidence), evidence))

scoreBackend(tree, pkg, type) ==
    Map(backendOrder, LAMBDA name :
        LET evidence == frameworkEvidence(tree, backendDetectors[name], pkg, type,
                                          readPythonDependencies(tree))
        IN  Detection(name, backendConfidence(name, evidence), evidence))

\* detectFrameworks(projectPath, detectors, packageData, projectType)
detectFrameworks(all) == Names(SortByConfidence(Keep(all)))

ComposeFiles ==
    <<"docker-compose.yml", "docker-compose.yaml", "docker/docker-compose.yml",
      "docker/docker-compose.yaml">>

EnvFiles == <<".env", ".env.example">>

\* the last file of EnvFiles that exists decides: each one assigns the field
RECURSIVE EnvMatches(_, _, _, _)
EnvMatches(tree, files, wanted, sofar) ==
    IF files = <<>> THEN sofar
    ELSE EnvMatches(tree, Tail(files), wanted,
                    IF fileExists(tree, Head(files))
                    THEN SelectSeq(wanted, LAMBDA w : TextIncludes(tree, Head(files), w))
                    ELSE sofar)

databaseEvidence(tree, config, pkg, pythonDependencies) ==
    [EmptyEvidence EXCEPT
        !.dependencies =
            (IF pkg # Null /\ Has(config, "dependencies")
             THEN Filter(config.dependencies, AllDeps(pkg)) ELSE <<>>)
            \o (IF pythonDependencies # {} /\ Has(config, "dependencies")
                THEN Filter(config.dependencies, pythonDependencies) ELSE <<>>),
        !.dockerServices =
            IF Has(config, "dockerServices")
            THEN Dedup(Flatten(Map(ExistingFiles(tree, ComposeFiles), LAMBDA file :
                     SelectSeq(config.dockerServices, LAMBDA service :
                         \/ TextIncludes(tree, file, service \o ":")
                         \/ TextIncludes(tree, file, "image: " \o service)))))
            ELSE <<>>,
        !.connectionStrings =
            IF Has(config, "connectionStrings")
            THEN EnvMatches(tree, EnvFiles, config.connectionStrings, <<>>) ELSE <<>>,
        !.envVars =
            IF Has(config, "envVars")
            THEN EnvMatches(tree, EnvFiles, config.envVars, <<>>) ELSE <<>>]

scoreDatabases(tree, pkg) ==
    Map(databaseOrder, LAMBDA db :
        LET evidence == databaseEvidence(tree, databaseDetectors[db], pkg,
                                         readPythonDependencies(tree))
        IN  Detection(db, databaseConfidence(db, evidence), evidence))

\* detectDatabases, detectTesting, detectBuildTools, detectDeployment push
\* the accepted names in scoring order
detectUnsorted(all) == Names(Keep(all))

TestSampleLimit == 5
TestSampleSize == 2

testingEvidence(tree, config, pkg, pythonDependencies) ==
    LET files == FilesMatching(tree, Field(config, "files"), TestSampleLimit)
        sampleFiles == SubSeq(files, 1, Min(TestSampleSize, Len(files)))
    IN  [EmptyEvidence EXCEPT
            !.dependencies =
                (IF pkg # Null THEN Filter(Field(config, "dependencies"), AllDeps(pkg))
                 ELSE <<>>)
                \o (IF pythonDependencies # {} /\ Has(config, "dependencies")
                    THEN Filter(config.dependencies, pythonDependencies) ELSE <<>>),
            !.devDependencies =
                IF pkg # Null THEN Filter(Field(config, "devDependencies"), pkg.devDependencies)
                ELSE <<>>,
            !.packageJsonConfig =
                /\ pkg # Null
                /\ Has(config, "packageJsonConfig")
                /\ config.packageJsonConfig \in pkg.truthy,
            !.relatedPackages =
                IF pythonDependencies # {} /\ Has(config, "dependencies")
                THEN Filter(Field(config, "relatedPackages"), pythonDependencies) ELSE <<>>,
            !.configs = ExistingFiles(tree, Field(config, "configs")),
            !.directories = ExistingDirs(tree, Field(config, "directories")),
            !.files = files,
            !.codePatterns =
                IF Has(config, "codePatterns") /\ Len(files) > 0
                THEN Dedup(Found(tree, sampleFiles, config.codePatterns)) ELSE <<>>]

scoreTesting(tree, pkg) ==
    Map(testingOrder, LAMBDA test :
        LET evidence == testingEvidence(tree, testingDetectors[test], pkg,
                                        readPythonDependencies(tree))
        IN  Detection(test, testingConfidence(test, evidence), evidence))

buildToolEvidence(tree, config, pkg) ==
    [EmptyEvidence EXCEPT
        !.dependencies =
            IF pkg # Null /\ Has(config, "dependencies")
            THEN Filter(config.dependencies, AllDeps(pkg)) ELSE <<>>,
        !.configs = ExistingFiles(tree, Field(config, "configs")),
        !.files = ExistingFiles(tree, Field(config, "files")),
        !.indicators = ExistingFiles(tree, Field(config, "indicators"))]

scoreBuildTools(tree, pkg) ==
    Map(buildToolOrder, LAMBDA tool :
        LET evidence == buildToolEvidence(tree, buildToolDetectors[tool], pkg)
        IN  Detection(tool, buildToolConfidence(tool, evidence), evidence))

\* file.includes('*')
IsGlob(file) == file \in {".github/workflows/*.yml", ".github/workflows/*.yaml"}

deploymentEvidence(tree, config) ==
    [EmptyEvidence EXCEPT
        !.files =
            Flatten(Map(Field(config, "files"), LAMBDA file :
                IF IsGlob(file) THEN findFiles(tree, file, DefaultLimit)
                ELSE IF fileExists(tree, file) THEN <<file>> ELSE <<>>)),
        !.configs = ExistingFiles(tree, Field(config, "configs"))]

scoreDeployment(tree) ==
    Map(deploymentOrder, LAMBDA deployment :
        LET evidence == deploymentEvidence(tree, deploymentDetectors[deployment])
        IN  Detection(deployment, deploymentConfidence(deployment, evidence), evidence))

----------------------------------------------------------------------------
(* Project Type Classifier *)

\* the `^\s*\w+:\s*$` lines of docker-compose.yml: the `services:` line and
\* one line per service key the text holds
KeyLines(tree) == 1 + Cardinality(Of(tree, "compose") \cap {"redis:", "mongo:", "mysql:"})

MicroserviceLines == 3

analyzeProjectStructure(tree) ==
    LET monorepo == \/ fileExists(tree, "lerna.json")
                    \/ fileExists(tree, "turbo.json")
                    \/ fileExists(tree, "rush.json")
        microservices == /\ fileExists(tree, "docker-compose.yml")
                         /\ KeyLines(tree) > MicroserviceLines
    IN  [hasApi |-> dirExists(tree, "api"),
         hasControllers |-> dirExists(tree, "controllers"),
         hasRoutes |-> dirExists(tree, "routes"),
         hasModels |-> dirExists(tree, "models"),
         hasServices |-> dirExists(tree, "services"),
         hasComponents |-> dirExists(tree, "components") \/ dirExists(tree, "src/components"),
         hasPages |-> dirExists(tree, "pages") \/ dirExists(tree, "src/pages"),
         hasViews |-> dirExists(tree, "views") \/ dirExists(tree, "src/views"),
         hasPublic |-> dirExists(tree, "public"),
         hasSrc |-> dirExists(tree, "src"),
         hasTests |-> \/ dirExists(tree, "tests")
                      \/ dirExists(tree, "test")
                      \/ dirExists(tree, "__tests__"),
         hasDocker |-> fileExists(tree, "Dockerfile"),
         hasKubernetes |-> dirExists(tree, "k8s") \/ dirExists(tree, "kubernetes"),
         architecture |->
            [type |-> IF monorepo THEN "monorepo" ELSE "standard",
             patterns |-> (IF monorepo THEN <<"monorepo">> ELSE <<>>)
                          \o (IF microservices THEN <<"microservices">> ELSE <<>>)]]

backendPackages ==
    <<"express", "fastify", "koa", "nestjs", "hapi", "mongoose", "typeorm", "sequelize">>
frontendPackages == <<"react", "vue", "angular", "svelte", "next", "gatsby", "nuxt">>
pythonBackendPackages == <<"fastapi", "django", "flask", "tornado", "aiohttp", "sanic">>

DirWeight == 3
PackageWeight == 2
CliWeight == 5
LibraryWeight == 3
PythonWeight == 3
CliThreshold == 3

\* the indicator totals of determineProjectType
Indicators(tree, struct, pkg) ==
    LET backendDirs == struct.hasApi \/ struct.hasControllers \/ struct.hasRoutes
                       \/ struct.hasModels
        frontendDirs == struct.hasComponents \/ struct.hasPages \/ struct.hasViews
        backendCount ==
            IF pkg = Null THEN 0 ELSE Len(Filter(backendPackages, AllDeps(pkg)))
        frontendCount ==
            IF pkg = Null THEN 0
            ELSE Len(SelectSeq(frontendPackages, LAMBDA name :
                         \E dep \in AllDeps(pkg) : StrIncludes(dep, name)))
        pythonBackendCount == Len(Filter(pythonBackendPackages, readPythonDependencies(tree)))
    IN  [backendOnly |-> (IF backendDirs THEN DirWeight ELSE 0)
                         + backendCount * PackageWeight
                         + pythonBackendCount * PythonWeight,
         frontendOnly |-> (IF frontendDirs THEN DirWeight ELSE 0)
                          + frontendCount * PackageWeight,
         fullstack |-> 0,
         library |-> IF pkg # Null /\ "main" \in pkg.truthy
                        /\ ~struct.hasApi /\ ~struct.hasComponents
                     THEN LibraryWeight ELSE 0,
         cli |-> IF pkg # Null /\ "bin" \in pkg.truthy THEN CliWeight ELSE 0]

\* the chain with its first two tests in the other order
DeriveTypeFullStackFirst(indicators) ==
    IF indicators.backendOnly > 0 /\ indicators.frontendOnly > 0
    THEN "full-stack-application"
    ELSE IF indicators.cli > CliThreshold THEN "cli-tool"
    ELSE IF indicators.backendOnly > indicators.frontendOnly THEN "backend-api"
    ELSE IF indicators.frontendOnly > indicators.backendOnly THEN "frontend-application"
    ELSE IF indicators.library > 0 THEN "library"
    ELSE "unknown"

\* the if/else chain that picks the type
DeriveType(indicators) ==
    IF indicators.cli > CliThreshold THEN "cli-tool"
    ELSE IF indicators.backendOnly > 0 /\ indicators.frontendOnly > 0
         THEN "full-stack-application"
    ELSE IF indicators.backendOnly > indicators.frontendOnly THEN "backend-api"
    ELSE IF indicators.frontendOnly > indicators.backendOnly THEN "frontend-application"
    ELSE IF indicators.library > 0 THEN "library"
    ELSE "unknown"

\* the first name of `order` whose manifest key is among `deps`, else `otherwise`
RECURSIVE FirstDeclared(_, _, _)
FirstDeclared(order, deps, otherwise) ==
    IF order = <<>> THEN otherwise
    ELSE IF Head(order).key \in deps THEN Head(order).name
    ELSE FirstDeclared(Tail(order), deps, otherwise)

PrimaryOf(tree, pkg, type) ==
    CASE type = "backend-api" ->
            LET node == IF pkg = Null THEN ""
                        ELSE FirstDeclared(<<[key |-> "express", name |-> "express"],
                                             [key |-> "fastify", name |-> "fastify"],
                                             [key |-> "@nestjs/core", name |-> "nestjs"],
                                             [key |-> "koa", name |-> "koa"]>>,
                                           pkg.dependencies, "")
            IN  FirstDeclared(<<[key |-> "fastapi", name |-> "fastapi"],
                                [key |-> "django", name |-> "django"],
                                [key |-> "flask", name |-> "flask"]>>,
                              readPythonDependencies(tree), node)
      [] type = "frontend-application" ->
            IF pkg = Null THEN ""
            ELSE FirstDeclared(<<[key |-> "react", name |-> "react"],
                                 [key |-> "vue", name |-> "vue"],
                                 [key |-> "@angular/core", name |-> "angular"],
                                 [key |-> "svelte", name |-> "svelte"]>>,
                               AllDeps(pkg), "")
      [] OTHER -> ""

\* the backend gate taken from which side is ahead
IsBackendOnlyAhead(indicators) == indicators.backendOnly > indicators.frontendOnly

IsBackendOnly(indicators) == indicators.backendOnly > 0 /\ indicators.frontendOnly = 0
IsFrontendOnlyPasted(indicators) ==
    indicators.backendOnly > 0 /\ indicators.frontendOnly = 0

IsFrontendOnly(indicators) == indicators.frontendOnly > 0 /\ indicators.backendOnly = 0

determineProjectType(tree, struct, pkg) ==
    LET indicators == Indicators(tree, struct, pkg)
    IN  [type |-> DeriveType(indicators),
         primary |-> PrimaryOf(tree, pkg, DeriveType(indicators)),
         isBackendOnly |-> IsBackendOnly(indicators),
         isFrontendOnly |-> IsFrontendOnly(indicators),
         scores |-> indicators]

----------------------------------------------------------------------------
(* Conflict Resolver *)

ResolvedCategories == <<"frontend", "backend", "testing", "buildTools">>

\* one entry of the table, applied to every list of the record
ApplyExclusionEverywhere(r, tech, categories) ==
    [c \in DOMAIN r |->
        IF c # "confidence" /\ Includes(r[c], tech)
        THEN Without(r[c], Range(mutualExclusions[tech])) ELSE r[c]]

\* one entry of the table, applied to the categories in turn
RECURSIVE ApplyExclusion(_, _, _)
ApplyExclusion(r, tech, categories) ==
    IF categories = <<>> THEN r
    ELSE LET category == Head(categories)
             next == IF Includes(r[category], tech)
                     THEN [r EXCEPT ![category] =
                              Without(r[category], Range(mutualExclusions[tech]))]
                     ELSE r
         IN  ApplyExclusion(next, tech, Tail(categories))

RECURSIVE ApplyExclusions(_, _)
ApplyExclusions(r, techs) ==
    IF techs = <<>> THEN r
    ELSE ApplyExclusions(ApplyExclusion(r, Head(techs), ResolvedCategories), Tail(techs))

\* the table read from its last entry to its first
Reverse(s) == [i \in 1..Len(s) |-> s[Len(s) + 1 - i]]

resolveConflictsLastDeclared(detectionResults) ==
    ApplyExclusions(detectionResults, Reverse(mutualExclusionOrder))

resolveConflicts(detectionResults) ==
    ApplyExclusions(detectionResults, mutualExclusionOrder)

----------------------------------------------------------------------------
(* Stack Assembler *)

packageManagerChecks ==
    <<[manager |-> "npm", lockfile |-> "package-lock.json"],
      [manager |-> "yarn", lockfile |-> "yarn.lock"],
      [manager |-> "pnpm", lockfile |-> "pnpm-lock.yaml"],
      [manager |-> "bun", lockfile |-> "bun.lockb"]>>

detectPackageManagers(tree) ==
    Map(SelectSeq(packageManagerChecks, LAMBDA c : fileExists(tree, c.lockfile)),
        LAMBDA c : c.manager)

EmptyResults ==
    [frontend |-> <<>>, backend |-> <<>>, databases |-> <<>>, testing |-> <<>>,
     buildTools |-> <<>>, deployment |-> <<>>, patterns |-> <<>>, confidence |-> <<>>]

\* a fallback that keeps what the earlier stages computed
getEmptyResultPartial ==
    [languages |-> languages, type |-> "unknown", primary |-> "", frameworks |-> <<>>,
     databases |-> <<>>, testing |-> <<>>, buildTools |-> <<>>, deployment |-> <<>>,
     patterns |-> <<>>, architecture |-> [type |-> "unknown", patterns |-> <<>>],
     packageManagers |-> <<>>]

getEmptyResult ==
    [languages |-> <<>>, type |-> "unknown", primary |-> "", frameworks |-> <<>>,
     databases |-> <<>>, testing |-> <<>>, buildTools |-> <<>>, deployment |-> <<>>,
     patterns |-> <<>>, architecture |-> [type |-> "unknown", patterns |-> <<>>],
     packageManagers |-> <<>>]

\* the record detect() builds on its normal path
\* the record with the classifier's framework as primary
AssembleDerivedPrimary(tree, langs, struct, type, r) ==
    [languages |-> langs,
     type |-> type.type,
     primary |-> type.primary,
     frameworks |-> r.frontend \o r.backend,
     databases |-> r.databases,
     testing |-> r.testing,
     buildTools |-> r.buildTools,
     deployment |-> r.deployment,
     patterns |-> r.patterns,
     architecture |-> struct.architecture,
     packageManagers |-> detectPackageManagers(tree),
     confidence |-> r.confidence]

Assemble(tree, langs, struct, type, r) ==
    [languages |-> langs,
     type |-> type.type,
     primary |-> IF Len(langs) > 0 THEN langs[1] ELSE "",
     frameworks |-> r.frontend \o r.backend,
     databases |-> r.databases,
     testing |-> r.testing,
     buildTools |-> r.buildTools,
     deployment |-> r.deployment,
     patterns |-> r.patterns,
     architecture |-> struct.architecture,
     packageManagers |-> detectPackageManagers(tree),
     confidence |-> r.confidence]

----------------------------------------------------------------------------
(* detect(projectPath): one action per stage *)

\* one entry per scored detector: the category, the detector, the confidence
\* and whether `detected.push` took it
Log(category, all) ==
    {<<category, all[i].name, all[i].confidence, Accepted(all[i].confidence)>> :
        i \in 1..Len(all)}

HarnessIdle ==
    /\ det = Null
    /\ ev = EmptyEvidence
    /\ score = 0
    /\ ind = Null
    /\ derived = ""
    /\ entry = Null
    /\ registered = ""
    /\ other = Null

\* no scorer has been invoked
NoCalls ==
    [c \in {"languages", "frontend", "backend", "databases", "testing", "buildTools",
            "deployment"} |-> 0]

\* one more invocation of the scorer of the category
Called(category) == [calls EXCEPT ![category] = @ + 1]

Init ==
    /\ fs \in Trees
    /\ pc = "languages"
    /\ languages = <<>>
    /\ structure = Null
    /\ packageData = Null
    /\ projectType = Null
    /\ results = EmptyResults
    /\ resolved = Null
    /\ result = Null
    /\ scored = {}
    /\ thrown = FALSE
    /\ glob \in GlobOrders(fs)
    /\ first = Null
    /\ calls = NoCalls
    /\ HarnessIdle

\* Step 1: const languages = await this.detectLanguages(projectPath)
DetectLanguages ==
    /\ pc = "languages"
    /\ IF \E i \in 1..Len(languageOrder) : languageThrows(fs, languageOrder[i])
       THEN /\ pc' = "catch"
            /\ UNCHANGED <<languages, scored>>
       ELSE /\ languages' = detectLanguages(fs)
            /\ scored' = scored \cup Log("languages", scoreLanguages(fs))
            /\ pc' = "structure"
    /\ calls' = Called("languages")
    /\ UNCHANGED <<fs, structure, packageData, projectType, results, resolved, result,
                   thrown, det, ev, score, ind, derived, glob, first, entry, registered, other>>

\* Step 2: const projectAnalysis = await this.analyzeProjectStructure(projectPath)
AnalyzeProjectStructure ==
    /\ pc = "structure"
    /\ structure' = analyzeProjectStructure(fs)
    /\ pc' = "manifest"
    /\ UNCHANGED <<fs, languages, packageData, projectType, results, resolved, result,
                   scored, thrown, det, ev, score, ind, derived, glob, first, calls, entry,
                   registered, other>>

\* the manifest read, and rewritten as an empty object when it does not parse
ReadPackageJsonRepairing ==
    /\ pc = "manifest"
    /\ packageData' = readPackageJson(fs)
    /\ fs' = IF Fact("pkg", "invalid") \in fs
             THEN (fs \ {Fact("pkg", "invalid")}) \cup {Fact("pkg", "empty")}
             ELSE fs
    /\ pc' = "type"
    /\ UNCHANGED <<languages, structure, projectType, results, resolved, result,
                   scored, thrown, det, ev, score, ind, derived, glob, first, calls, entry,
                   registered, other>>

\* Step 3: const packageData = await this.readPackageJson(projectPath)
ReadPackageJson ==
    /\ pc = "manifest"
    /\ packageData' = readPackageJson(fs)
    /\ pc' = "type"
    /\ UNCHANGED <<fs, languages, structure, projectType, results, resolved, result,
                   scored, thrown, det, ev, score, ind, derived, glob, first, calls, entry,
                   registered, other>>

\* Step 4: const projectType = await this.determineProjectType(...)
DetermineProjectType ==
    /\ pc = "type"
    /\ projectType' = determineProjectType(fs, structure, packageData)
    /\ pc' = "frontend"
    /\ UNCHANGED <<fs, languages, structure, packageData, results, resolved, result,
                   scored, thrown, det, ev, score, ind, derived, glob, first, calls, entry,
                   registered, other>>

\* whether performTargetedDetection calls the scorer of this half
RunsFrontendAlways(type) == TRUE

RunsFrontend(type) == ~type.isBackendOnly
RunsBackend(type) == ~type.isFrontendOnly

\* the detectors a detectFrameworks call scores before one of them raises
RECURSIVE ScoredBeforeThrow(_, _, _)
ScoredBeforeThrow(order, table, pkg) ==
    IF order = <<>> \/ frameworkThrows(table[Head(order)], pkg) THEN {}
    ELSE {Head(order)} \cup ScoredBeforeThrow(Tail(order), table, pkg)

FrontendThrows ==
    \E i \in 1..Len(frontendOrder) : frameworkThrows(frontendDetectors[frontendOrder[i]],
                                                     packageData)

\* Step 5a: results.frontend = await this.detectFrameworks(.., this.frontendDetectors, ..)
DetectFrontend ==
    /\ pc = "frontend"
    /\ IF ~RunsFrontend(projectType)
       THEN /\ pc' = "backend"
            /\ UNCHANGED <<results, scored, calls>>
       ELSE IF FrontendThrows
       THEN /\ pc' = "catch"
            /\ scored' = scored \cup
                 {e \in Log("frontend", scoreFrontend(fs, packageData, projectType)) :
                     e[2] \in ScoredBeforeThrow(frontendOrder, frontendDetectors,
                                                packageData)}
            /\ UNCHANGED results
            /\ calls' = Called("frontend")
       ELSE /\ results' = [results EXCEPT !.frontend =
                              detectFrameworks(scoreFrontend(fs, packageData, projectType))]
            /\ scored' = scored \cup
                 Log("frontend", scoreFrontend(fs, packageData, projectType))
            /\ pc' = "backend"
            /\ calls' = Called("frontend")
    /\ UNCHANGED <<fs, languages, structure, packageData, projectType, resolved, result,
                   thrown, det, ev, score, ind, derived, glob, first, entry, registered, other>>

\* Step 5b: results.backend = await this.detectFrameworks(.., this.backendDetectors, ..)
DetectBackend ==
    /\ pc = "backend"
    /\ IF ~RunsBackend(projectType)
       THEN UNCHANGED <<results, scored, calls>>
       ELSE /\ results' = [results EXCEPT !.backend =
                              detectFrameworks(scoreBackend(fs, packageData, projectType))]
            /\ scored' = scored \cup
                 Log("backend", scoreBackend(fs, packageData, projectType))
            /\ calls' = Called("backend")
    /\ pc' = "databases"
    /\ UNCHANGED <<fs, languages, structure, packageData, projectType, resolved, result,
                   thrown, det, ev, score, ind, derived, glob, first, entry, registered, other>>

\* the database scorer called for projects with a backend only
DetectDatabasesGated ==
    /\ pc = "databases"
    /\ IF projectType.isFrontendOnly
       THEN UNCHANGED <<results, scored, calls>>
       ELSE /\ results' = [results EXCEPT !.databases =
                              detectUnsorted(scoreDatabases(fs, packageData))]
            /\ scored' = scored \cup Log("databases", scoreDatabases(fs, packageData))
            /\ calls' = Called("databases")
    /\ pc' = "testing"
    /\ UNCHANGED <<fs, languages, structure, packageData, projectType, resolved, result,
                   thrown, det, ev, score, ind, derived, glob, first, entry, registered, other>>

\* Step 5c: results.databases = await this.detectDatabases(projectPath, packageData)
DetectDatabases ==
    /\ pc = "databases"
    /\ results' = [results EXCEPT !.databases =
                      detectUnsorted(scoreDatabases(fs, packageData))]
    /\ scored' = scored \cup Log("databases", scoreDatabases(fs, packageData))
    /\ pc' = "testing"
    /\ calls' = Called("databases")
    /\ UNCHANGED <<fs, languages, structure, packageData, projectType, resolved, result,
                   thrown, det, ev, score, ind, derived, glob, first, entry, registered, other>>

\* Step 5d: results.testing = await this.detectTesting(projectPath, packageData)
DetectTesting ==
    /\ pc = "testing"
    /\ results' = [results EXCEPT !.testing = detectUnsorted(scoreTesting(fs, packageData))]
    /\ scored' = scored \cup Log("testing", scoreTesting(fs, packageData))
    /\ pc' = "buildTools"
    /\ calls' = Called("testing")
    /\ UNCHANGED <<fs, languages, structure, packageData, projectType, resolved, result,
                   thrown, det, ev, score, ind, derived, glob, first, entry, registered, other>>

\* Step 5e: results.buildTools = await this.detectBuildTools(projectPath, packageData)
DetectBuildTools ==
    /\ pc = "buildTools"
    /\ results' = [results EXCEPT !.buildTools =
                      detectUnsorted(scoreBuildTools(fs, packageData))]
    /\ scored' = scored \cup Log("buildTools", scoreBuildTools(fs, packageData))
    /\ pc' = "deployment"
    /\ calls' = Called("buildTools")
    /\ UNCHANGED <<fs, languages, structure, packageData, projectType, resolved, result,
                   thrown, det, ev, score, ind, derived, glob, first, entry, registered, other>>

\* Step 5f: results.deployment = await this.detectDeployment(projectPath),
\* then results.patterns collects the six lists and the results are returned
DetectDeployment ==
    /\ pc = "deployment"
    /\ LET deployment == detectUnsorted(scoreDeployment(fs))
       IN  results' = [results EXCEPT
                          !.deployment = deployment,
                          !.patterns = results.frontend \o results.backend
                                       \o results.databases \o results.testing
                                       \o results.buildTools \o deployment]
    /\ scored' = scored \cup Log("deployment", scoreDeployment(fs))
    /\ pc' = "resolve"
    /\ calls' = Called("deployment")
    /\ UNCHANGED <<fs, languages, structure, packageData, projectType, resolved, result,
                   thrown, det, ev, score, ind, derived, glob, first, entry, registered, other>>

\* Step 6: const resolved = this.resolveConflicts(detectionResults)
ResolveConflicts ==
    /\ pc = "resolve"
    /\ resolved' = resolveConflicts(results)
    /\ pc' = "assemble"
    /\ UNCHANGED <<fs, languages, structure, packageData, projectType, results, result,
                   scored, thrown, det, ev, score, ind, derived, glob, first, calls, entry,
                   registered, other>>

\* Step 7: the result record, with await this.detectPackageManagers(projectPath)
Return ==
    /\ pc = "assemble"
    /\ result' = Assemble(fs, languages, structure, projectType, resolved)
    /\ pc' = "done"
    /\ UNCHANGED <<fs, languages, structure, packageData, projectType, results, resolved,
                   scored, thrown, det, ev, score, ind, derived, glob, first, calls, entry,
                   registered, other>>

\* catch (error) { this.logger.error(..); return this.getEmptyResult(); }
Catch ==
    /\ pc = "catch"
    /\ thrown' = TRUE
    /\ result' = getEmptyResult
    /\ pc' = "done"
    /\ UNCHANGED <<fs, languages, structure, packageData, projectType, results, resolved,
                   scored, det, ev, score, ind, derived, glob, first, calls, entry,
                   registered, other>>

Next ==
    \/ DetectLanguages
    \/ AnalyzeProjectStructure
    \/ ReadPackageJson
    \/ DetermineProjectType
    \/ DetectFrontend
    \/ DetectBackend
    \/ DetectDatabases
    \/ DetectTesting
    \/ DetectBuildTools
    \/ DetectDeployment
    \/ ResolveConflicts
    \/ Return
    \/ Catch

Spec == Init /\ [][Next]_vars

----------------------------------------------------------------------------
(* Two detect() calls on one unchanged tree *)

\* Python test files, one of them importing unittest, beside a test
\* directory and a manifest whose script value is not a string
TwiceFacts ==
    {Fact("file", "test_a.py"), Fact("file", "test_b.py"),
     FileWith("test_c.py", "import unittest"), Fact("file", "main.py"),
     Fact("dir", "tests"), Fact("script", "nonString")}

InitTwice ==
    /\ fs \in KSubsets(TwiceFacts, MaxTwiceFacts)
    /\ pc = "languages"
    /\ languages = <<>>
    /\ structure = Null
    /\ packageData = Null
    /\ projectType = Null
    /\ results = EmptyResults
    /\ resolved = Null
    /\ result = Null
    /\ scored = {}
    /\ thrown = FALSE
    /\ glob \in GlobOrders(fs)
    /\ first = Null
    /\ calls = NoCalls
    /\ HarnessIdle

\* the caller keeps the value of the first call and calls detect() again on
\* the same projectPath; the glob walks of the new call list in their own order
DetectAgain ==
    /\ pc = "done"
    /\ first = Null
    /\ first' = result
    /\ glob' \in GlobOrders(fs)
    /\ pc' = "languages"
    /\ languages' = <<>>
    /\ structure' = Null
    /\ packageData' = Null
    /\ projectType' = Null
    /\ results' = EmptyResults
    /\ resolved' = Null
    /\ result' = Null
    /\ scored' = {}
    /\ thrown' = FALSE
    /\ calls' = NoCalls
    /\ UNCHANGED <<fs, det, ev, score, ind, derived, entry, registered, other>>

NextTwice == Next \/ DetectAgain

SpecTwice == InitTwice /\ [][NextTwice]_vars

----------------------------------------------------------------------------
(* Scoring harness: one scoring function applied to one evidence bag *)

Categories ==
    <<"languages", "frontend", "backend", "databases", "testing", "buildTools",
      "deployment">>

OrderOf(category) ==
    CASE category = "languages" -> languageOrder
      [] category = "frontend" -> frontendOrder
      [] category = "backend" -> backendOrder
      [] category = "databases" -> databaseOrder
      [] category = "testing" -> testingOrder
      [] category = "buildTools" -> buildToolOrder
      [] category = "deployment" -> deploymentOrder

ConfigOf(d) ==
    CASE d.category = "languages" -> languageDetectors[d.name]
      [] d.category = "frontend" -> frontendDetectors[d.name]
      [] d.category = "backend" -> backendDetectors[d.name]
      [] d.category = "databases" -> databaseDetectors[d.name]
      [] d.category = "testing" -> testingDetectors[d.name]
      [] d.category = "buildTools" -> buildToolDetectors[d.name]
      [] d.category = "deployment" -> deploymentDetectors[d.name]

\* config.confidence(evidence)
Confidence(d, evidence) ==
    CASE d.category = "languages" -> languageConfidence(d.name, evidence)
      [] d.category = "frontend" -> frontendConfidence(d.name, evidence)
      [] d.category = "backend" -> backendConfidence(d.name, evidence)
      [] d.category = "databases" -> databaseConfidence(d.name, evidence)
      [] d.category = "testing" -> testingConfidence(d.name, evidence)
      [] d.category = "buildTools" -> buildToolConfidence(d.name, evidence)
      [] d.category = "deployment" -> deploymentConfidence(d.name, evidence)

Detectors ==
    UNION {{[category |-> Categories[c], name |-> OrderOf(Categories[c])[i]] :
               i \in 1..Len(OrderOf(Categories[c]))} : c \in 1..Len(Categories)}

\* the list fields of an evidence bag
ListFields ==
    <<"files", "configs", "packageIndicators", "indicators", "dependencies",
      "devDependencies", "codePatterns", "relatedPackages", "scripts", "imports",
      "connectionStrings", "dockerServices", "envVars", "directories", "patterns">>

\* file names a bag may hold besides the ones the detector names
BagFiles == <<"file1", "file2">>

\* the values a field of a bag of detector d is drawn from, in list order
Candidates(d, field) ==
    Field(ConfigOf(d), field) \o (IF field = "files" THEN BagFiles ELSE <<>>)

Entry(field, value) == [f |-> field, v |-> value]

Entries(d) ==
    UNION {{Entry(ListFields[k], Candidates(d, ListFields[k])[i]) :
               i \in 1..Len(Candidates(d, ListFields[k]))} : k \in 1..Len(ListFields)}
    \cup {Entry("packageJsonConfig", "true")}

BagOf(d, entries, backendOnly, frontendOnly) ==
    [field \in DOMAIN EmptyEvidence |->
        CASE field = "packageJsonConfig" -> Entry(field, "true") \in entries
          [] field = "isBackendOnly" -> backendOnly
          [] field = "isFrontendOnly" -> frontendOnly
          [] OTHER -> SelectSeq(Candidates(d, field), LAMBDA v : Entry(field, v) \in entries)]

\* only detectFrameworks puts the two gates into its bags
Gates(d) == IF d.category \in {"frontend", "backend"} THEN BOOLEAN ELSE {FALSE}

InitScore ==
    /\ det \in Detectors
    /\ \E entries \in KSubsets(Entries(det), MaxEvidence) :
       \E backendOnly \in Gates(det), frontendOnly \in Gates(det) :
          ev = BagOf(det, entries, backendOnly, frontendOnly)
    /\ score = 0
    /\ ind = Null
    /\ derived = ""
    /\ pc = "bag"
    /\ fs = {}
    /\ languages = <<>>
    /\ structure = Null
    /\ packageData = Null
    /\ projectType = Null
    /\ results = EmptyResults
    /\ resolved = Null
    /\ result = Null
    /\ scored = {}
    /\ thrown = FALSE
    /\ glob = <<>>
    /\ first = Null
    /\ calls = NoCalls
    /\ entry = Null
    /\ registered = ""
    /\ other = Null

\* const confidence = config.confidence(evidence)
Score ==
    /\ pc = "bag"
    /\ score' = Confidence(det, ev)
    /\ pc' = "scored"
    /\ UNCHANGED <<fs, languages, structure, packageData, projectType, results, resolved,
                   result, scored, thrown, det, ev, ind, derived, glob, first, calls, entry,
                   registered, other>>

NextScore == Score

SpecScore == InitScore /\ [][NextScore]_vars

----------------------------------------------------------------------------
(* Type harness: the derivation rules applied to indicator totals *)

InitType ==
    /\ ind \in [backendOnly : 0..MaxIndicator, frontendOnly : 0..MaxIndicator,
                fullstack : {0}, library : 0..MaxIndicator, cli : 0..MaxIndicator]
    /\ derived = ""
    /\ det = Null
    /\ ev = EmptyEvidence
    /\ score = 0
    /\ pc = "totals"
    /\ fs = {}
    /\ languages = <<>>
    /\ structure = Null
    /\ packageData = Null
    /\ projectType = Null
    /\ results = EmptyResults
    /\ resolved = Null
    /\ result = Null
    /\ scored = {}
    /\ thrown = FALSE
    /\ glob = <<>>
    /\ first = Null
    /\ calls = NoCalls
    /\ entry = Null
    /\ registered = ""
    /\ other = Null

Derive ==
    /\ pc = "totals"
    /\ derived' = DeriveType(ind)
    /\ pc' = "derived"
    /\ UNCHANGED <<fs, languages, structure, packageData, projectType, results, resolved,
                   result, scored, thrown, det, ev, score, ind, glob, first, calls, entry,
                   registered, other>>

NextType == Derive

SpecType == InitType /\ [][NextType]_vars

----------------------------------------------------------------------------
(* Parse harness: readPythonDependencies on one dependency entry *)

PackageNames == {"fastapi", "django", "flask", "uvicorn", "requests"}

\* what may follow the package name in an entry: version specifiers, an
\* extras bracket, an environment marker
Specifiers ==
    {<<"=", "=", "0.104.1">>,
     <<">", "=", "2.0">>,
     <<" ", "~", "=", " ", "4.2">>,
     <<"[", "standard", "]">>,
     <<";", " ", "python_version", " ", "<", " ", "'3.9'">>,
     <<";", "python_version", "<", "'3.9'">>}

SpecifierLists == UNION {[1..n -> Specifiers] : n \in 0..MaxSpecifiers}

\* the runs of characters of the entry
EntryTokens(e) == <<e.name>> \o Flatten(e.specifiers)

InitParse ==
    /\ entry \in [source : {"requirements", "project"}, name : PackageNames,
                  specifiers : SpecifierLists]
    /\ registered = ""
    /\ other = Null
    /\ pc = "entry"
    /\ det = Null
    /\ ev = EmptyEvidence
    /\ score = 0
    /\ ind = Null
    /\ derived = ""
    /\ fs = {}
    /\ languages = <<>>
    /\ structure = Null
    /\ packageData = Null
    /\ projectType = Null
    /\ results = EmptyResults
    /\ resolved = Null
    /\ result = Null
    /\ scored = {}
    /\ thrown = FALSE
    /\ glob = <<>>
    /\ first = Null
    /\ calls = NoCalls

\* dependencies.add(name) for the entry, by the branch that read it
Register ==
    /\ pc = "entry"
    /\ registered' = IF entry.source = "requirements"
                     THEN RequirementName(EntryTokens(entry))
                     ELSE ProjectName(EntryTokens(entry))
    /\ pc' = "registered"
    /\ UNCHANGED <<fs, languages, structure, packageData, projectType, results, resolved,
                   result, scored, thrown, det, ev, score, ind, derived, glob, first, calls,
                   entry, other>>

NextParse == Register

SpecParse == InitParse /\ [][NextParse]_vars

----------------------------------------------------------------------------
(* Resolver harness: resolveConflicts applied to a detection-results record *)

\* how many names the list of the record holds
MaxListed == 2

\* keys of the table, names they exclude and a name outside the table
ListedNames ==
    {"react", "vue", "angular", "svelte", "express", "fastify", "jest", "mocha",
     "webpack", "nextjs"}

ListCategories == {"frontend", "backend", "databases", "testing", "buildTools", "deployment"}

\* the lists of at most MaxListed names, in every order
Lists == UNION {[1..n -> ListedNames] : n \in 0..MaxListed}

InitResolve ==
    /\ \E category \in ListCategories, list \in Lists :
          results = [EmptyResults EXCEPT ![category] = list, !.patterns = list]
    /\ pc = "record"
    /\ resolved = Null
    /\ fs = {}
    /\ languages = <<>>
    /\ structure = Null
    /\ packageData = Null
    /\ projectType = Null
    /\ result = Null
    /\ scored = {}
    /\ thrown = FALSE
    /\ glob = <<>>
    /\ first = Null
    /\ calls = NoCalls
    /\ HarnessIdle

\* const resolved = this.resolveConflicts(detectionResults)
Resolve ==
    /\ pc = "record"
    /\ resolved' = resolveConflicts(results)
    /\ pc' = "resolved"
    /\ UNCHANGED <<fs, languages, structure, packageData, projectType, results, result,
                   scored, thrown, det, ev, score, ind, derived, glob, first, calls, entry,
                   registered, other>>

NextResolve == Resolve

SpecResolve == InitResolve /\ [][NextResolve]_vars

----------------------------------------------------------------------------
(* detect() on projects with .env files and a TypeScript toolchain *)

\* how many facts such a project holds
MaxExtraFacts == 2

\* .env with a MongoDB connection string, .env.example without and with
\* one, a compose service, a driver, the TypeScript compiler and a type
\* package in the manifest, and a script value that is not a string
ExtraFacts ==
    {Fact("env", "mongodb://"), Fact("file", ".env.example"),
     FileWith(".env.example", "mongodb://"), Fact("compose", "mongo:"),
     Fact("dep", "mongoose"), Fact("devdep", "typescript"),
     Fact("dep", "@types/node"), Fact("script", "nonString")}

InitExtra ==
    /\ fs \in KSubsets(ExtraFacts, MaxExtraFacts)
    /\ pc = "languages"
    /\ languages = <<>>
    /\ structure = Null
    /\ packageData = Null
    /\ projectType = Null
    /\ results = EmptyResults
    /\ resolved = Null
    /\ result = Null
    /\ scored = {}
    /\ thrown = FALSE
    /\ glob \in GlobOrders(fs)
    /\ first = Null
    /\ calls = NoCalls
    /\ HarnessIdle

SpecExtra == InitExtra /\ [][Next]_vars

----------------------------------------------------------------------------
(* Two detect() calls on one instance, interleaved at their awaits *)

\* how many facts a root of the pair holds
MaxPairFacts == 1

PairFacts ==
    {Fact("dep", "react"), Fact("dep", "express"), Fact("script", "nonString"),
     Fact("req", "django"), Fact("file", "Dockerfile"), Fact("compose", "mongo:")}

\* some detector of the table raises while its evidence is collected
SomeThrows(order, table, pkg) ==
    \E i \in 1..Len(order) : frameworkThrows(table[order[i]], pkg)

\* performTargetedDetection as one function of what it is handed
performTargetedDetection(tree, type, pkg) ==
    LET frontend == IF RunsFrontend(type)
                    THEN detectFrameworks(scoreFrontend(tree, pkg, type)) ELSE <<>>
        backend == IF RunsBackend(type)
                   THEN detectFrameworks(scoreBackend(tree, pkg, type)) ELSE <<>>
        databases == detectUnsorted(scoreDatabases(tree, pkg))
        testing == detectUnsorted(scoreTesting(tree, pkg))
        buildTools == detectUnsorted(scoreBuildTools(tree, pkg))
        deployment == detectUnsorted(scoreDeployment(tree))
    IN  [frontend |-> frontend, backend |-> backend, databases |-> databases,
         testing |-> testing, buildTools |-> buildTools, deployment |-> deployment,
         patterns |-> frontend \o backend \o databases \o testing \o buildTools
                      \o deployment,
         confidence |-> <<>>]

\* a stage of detect() on the tree raises, so the call returns through its
\* catch
Raises(tree) ==
    LET pkg == readPackageJson(tree)
        type == determineProjectType(tree, analyzeProjectStructure(tree), pkg)
    IN  \/ \E i \in 1..Len(languageOrder) : languageThrows(tree, languageOrder[i])
        \/ RunsFrontend(type) /\ SomeThrows(frontendOrder, frontendDetectors, pkg)
        \/ RunsBackend(type) /\ SomeThrows(backendOrder, backendDetectors, pkg)

\* the locals of a call that has not started yet
Fresh(tree, order) ==
    [fs |-> tree, pc |-> "languages", languages |-> <<>>, structure |-> Null,
     packageData |-> Null, projectType |-> Null, results |-> EmptyResults,
     resolved |-> Null, result |-> Null, scored |-> {}, thrown |-> FALSE,
     glob |-> order, calls |-> NoCalls, overlapped |-> FALSE]

\* a call is between its first and its last stage
Midway(at) == at \notin {"languages", "done"}

InitPair ==
    /\ fs \in KSubsets(PairFacts, MaxPairFacts)
    /\ glob \in GlobOrders(fs)
    /\ \E tree \in KSubsets(PairFacts, MaxPairFacts) :
       \E order \in GlobOrders(tree) : other = Fresh(tree, order)
    /\ pc = "languages"
    /\ languages = <<>>
    /\ structure = Null
    /\ packageData = Null
    /\ projectType = Null
    /\ results = EmptyResults
    /\ resolved = Null
    /\ result = Null
    /\ scored = {}
    /\ thrown = FALSE
    /\ first = Null
    /\ calls = NoCalls
    /\ det = Null
    /\ ev = EmptyEvidence
    /\ score = 0
    /\ ind = Null
    /\ derived = ""
    /\ entry = Null
    /\ registered = ""

\* the switch of a detector that keeps the detection results of the running
\* call in a field of the instance: both calls go on with the same record
SwitchSharingResults ==
    /\ other # Null
    /\ fs' = other.fs
    /\ pc' = other.pc
    /\ languages' = other.languages
    /\ structure' = other.structure
    /\ packageData' = other.packageData
    /\ projectType' = other.projectType
    /\ resolved' = other.resolved
    /\ result' = other.result
    /\ scored' = other.scored
    /\ thrown' = other.thrown
    /\ glob' = other.glob
    /\ calls' = other.calls
    /\ other' = [fs |-> fs, pc |-> pc, languages |-> languages, structure |-> structure,
                 packageData |-> packageData, projectType |-> projectType,
                 results |-> results, resolved |-> resolved, result |-> result,
                 scored |-> scored, thrown |-> thrown, glob |-> glob, calls |-> calls,
                 overlapped |-> other.overlapped \/ (Midway(pc) /\ Midway(other.pc))]
    /\ UNCHANGED <<results, first, det, ev, score, ind, derived, entry, registered>>

\* the running call reaches an await and the event loop resumes the other
\* call: each call goes on with its own locals
Switch ==
    /\ other # Null
    /\ fs' = other.fs
    /\ pc' = other.pc
    /\ languages' = other.languages
    /\ structure' = other.structure
    /\ packageData' = other.packageData
    /\ projectType' = other.projectType
    /\ results' = other.results
    /\ resolved' = other.resolved
    /\ result' = other.result
    /\ scored' = other.scored
    /\ thrown' = other.thrown
    /\ glob' = other.glob
    /\ calls' = other.calls
    /\ other' = [fs |-> fs, pc |-> pc, languages |-> languages, structure |-> structure,
                 packageData |-> packageData, projectType |-> projectType,
                 results |-> results, resolved |-> resolved, result |-> result,
                 scored |-> scored, thrown |-> thrown, glob |-> glob, calls |-> calls,
                 overlapped |-> other.overlapped \/ (Midway(pc) /\ Midway(other.pc))]
    /\ UNCHANGED <<first, det, ev, score, ind, derived, entry, registered>>

NextPair == Next \/ Switch

SpecPair == InitPair /\ [][NextPair]_vars

----------------------------------------------------------------------------
(* Properties *)

Returned == pc = "done" /\ ~thrown

\* the exclusion set the detector `a` declares for itself
ExclusiveWith(a) ==
    IF a \in DOMAIN frontendDetectors THEN Field(frontendDetectors[a], "exclusiveWith")
    ELSE IF a \in DOMAIN backendDetectors THEN Field(backendDetectors[a], "exclusiveWith")
    ELSE <<>>

\* (a, b) is a registered mutual exclusion
Registered(a, b) ==
    \/ a \in DOMAIN mutualExclusions /\ Includes(mutualExclusions[a], b)
    \/ Includes(ExclusiveWith(a), b)

NoExclusivePair(list) == \A a \in Range(list), b \in Range(list) : ~Registered(a, b)

\* C1: a returned StackResult never holds, in one of its category lists
\* (frameworks, testing, buildTools), two names registered as mutually
\* exclusive by the exclusion table or by a detector's own exclusion set.
C1_NoExclusivePairSurvives ==
    Returned =>
        /\ NoExclusivePair(result.frameworks)
        /\ NoExclusivePair(result.testing)
        /\ NoExclusivePair(result.buildTools)

ScoredIn(category) == {e \in scored : e[1] = category}

\* the names a category scorer returned
AcceptedNames(category) ==
    IF category = "languages" THEN Range(languages) ELSE Range(results[category])

\* C2: in every category scorer, a scored detector is accepted exactly when
\* its confidence is at least 0.7 (70 hundredths), and every name a scorer
\* returned was scored at 0.7 or more.
C2_AcceptedIffAtLeastThreshold ==
    /\ \A e \in scored : e[4] <=> (e[3] >= 70)
    /\ \A c \in Range(Categories) : \A name \in AcceptedNames(c) :
          \E e \in ScoredIn(c) : e[2] = name /\ e[3] >= 70

\* C2 witness: one scorer accepted a detector at exactly 0.70 and rejected
\* one at 0.60.
C2_Witness ==
    /\ <<"languages", "typescript", 70, TRUE>> \in scored
    /\ <<"languages", "python", 60, FALSE>> \in scored
    /\ Includes(languages, "typescript")
    /\ ~Includes(languages, "python")

\* C3: the project type record never has both gates true.
C3_GatesExclusive ==
    projectType # Null => ~(projectType.isBackendOnly /\ projectType.isFrontendOnly)

\* C3 witness: a project with a backend directory was classified and its
\* backend gate is true.
C3_Witness ==
    /\ projectType # Null
    /\ projectType.isBackendOnly
    /\ projectType.scores.backendOnly > 0
    /\ structure.hasApi

\* C4: under isBackendOnly no frontend detector is scored and the result
\* lists no frontend-registry name; under isFrontendOnly no backend detector
\* is scored and the result lists no backend-registry name.
C4_IrrelevantHalfNeverScored ==
    projectType # Null =>
        /\ projectType.isBackendOnly =>
              /\ ScoredIn("frontend") = {}
              /\ result # Null => Range(result.frameworks) \cap Range(frontendOrder) = {}
        /\ projectType.isFrontendOnly =>
              /\ ScoredIn("backend") = {}
              /\ result # Null => Range(result.frameworks) \cap Range(backendOrder) = {}

\* C4 witness: a backend-only project that holds a frontend file the vue
\* detector would have accepted ran to its return.
C4_Witness ==
    /\ Returned
    /\ projectType.isBackendOnly
    /\ fileExists(fs, "App.vue")
    /\ ScoredIn("backend") # {}

\* C5: every frontend scoring function returns 0 on a bag with isBackendOnly
\* true, and every backend scoring function returns 0 on a bag with
\* isFrontendOnly true.
C5_GatedBagScoresZero ==
    pc = "scored" =>
        /\ det.category = "frontend" /\ ev.isBackendOnly => score = 0
        /\ det.category = "backend" /\ ev.isFrontendOnly => score = 0

\* the positions of detect() from which one of its stages runs next
Running ==
    {"languages", "structure", "manifest", "type", "frontend", "backend", "databases",
     "testing", "buildTools", "deployment", "resolve", "assemble", "catch"}

\* C6: detect() is always at a stage or has returned a result, a raised
\* exception always ends in a return, and after a failure of a stage the
\* value returned is the canonical empty result, holding nothing an earlier
\* stage computed.
C6_FailureReturnsEmptyResult ==
    /\ pc \in Running \cup {"done"}
    /\ pc \in Running => result = Null
    /\ pc = "done" => result # Null
    /\ thrown =>
          /\ pc = "done"
          /\ result.languages = <<>>
          /\ result.frameworks = <<>>
          /\ result.databases = <<>>
          /\ result.testing = <<>>
          /\ result.buildTools = <<>>
          /\ result.deployment = <<>>
          /\ result.patterns = <<>>
          /\ result.packageManagers = <<>>
          /\ result.type = "unknown"

\* C6 witness: a stage failed after languages, the structure, the type and
\* three frontend detectors had been computed, and detect() returned.
C6_Witness ==
    /\ thrown
    /\ pc = "done"
    /\ languages # <<>>
    /\ projectType # Null
    /\ ScoredIn("frontend") # {}

\* C7: the type is the one of the first rule that matches, in the order
\* cli > 3, both sides positive, backend ahead, frontend ahead, library > 0,
\* otherwise unknown; the weight of an executable entry point alone gives
\* cli-tool.
C7_FirstMatchingRule ==
    pc = "derived" =>
        LET cli == ind.cli > 3
            both == ind.backendOnly > 0 /\ ind.frontendOnly > 0
            back == ind.backendOnly > ind.frontendOnly
            front == ind.frontendOnly > ind.backendOnly
            lib == ind.library > 0
        IN  /\ cli => derived = "cli-tool"
            /\ ~cli /\ both => derived = "full-stack-application"
            /\ ~cli /\ ~both /\ back => derived = "backend-api"
            /\ ~cli /\ ~both /\ ~back /\ front => derived = "frontend-application"
            /\ ~cli /\ ~both /\ ~back /\ ~front /\ lib => derived = "library"
            /\ ~cli /\ ~both /\ ~back /\ ~front /\ ~lib => derived = "unknown"
            /\ ind.cli >= CliWeight => derived = "cli-tool"

\* C7 witness: totals with the entry-point weight and evidence on both
\* sides were derived to cli-tool.
C7_Witness ==
    /\ pc = "derived"
    /\ ind.cli = CliWeight
    /\ ind.backendOnly > 0
    /\ ind.frontendOnly > 0
    /\ ind.library > 0
    /\ derived = "cli-tool"

\* the manifest key of each backend web framework that its detector scores 1.0
BackendCanonical ==
    [express |-> "express", fastify |-> "fastify", koa |-> "koa",
     nestjs |-> "@nestjs/core", fastapi |-> "fastapi", django |-> "django",
     flask |-> "flask"]

PythonFrameworks == {"fastapi", "django", "flask"}

\* the project declares the canonical dependency of backend framework F in
\* the manifest of its ecosystem
DeclaresBackend(tree, F) ==
    IF F \in PythonFrameworks
    THEN \E line \in Of(tree, "req") : ReqName(line) = BackendCanonical[F]
    ELSE BackendCanonical[F] \in Of(tree, "dep")

\* no frontend directory, no frontend package, no executable entry point
NoFrontendNoCli(tree) ==
    /\ Of(tree, "dir") \cap {"components", "pages", "views", "src/components",
                             "src/pages", "src/views"} = {}
    /\ \A dep \in Of(tree, "dep") \cup Of(tree, "devdep") :
          \A i \in 1..Len(frontendPackages) : ~StrIncludes(dep, frontendPackages[i])
    /\ "bin" \notin Of(tree, "pkg")

\* C8: a project that declares the canonical dependency of a backend web
\* framework F, with no frontend directory, no frontend package and no
\* executable entry point, is typed backend-api with isBackendOnly true, and
\* F is accepted at confidence 1.0 and listed in frameworks.
C8_BackendScenario ==
    Returned =>
        \A F \in Range(backendOrder) :
            DeclaresBackend(fs, F) /\ NoFrontendNoCli(fs) =>
                /\ result.type = "backend-api"
                /\ projectType.isBackendOnly
                /\ <<"backend", F, 100, TRUE>> \in scored
                /\ Includes(result.frameworks, F)

\* the compose file declares a service of the database detector
ComposeDeclares(tree, db) ==
    \E i \in 1..Len(databaseDetectors[db].dockerServices) :
        LET service == databaseDetectors[db].dockerServices[i]
        IN  Of(tree, "compose") \cap {service \o ":", "image: " \o service} # {}

NoManifestDependency(tree, db) ==
    /\ (Of(tree, "dep") \cup Of(tree, "devdep")) \cap Range(databaseDetectors[db].dependencies)
          = {}
    /\ readPythonDependencies(tree) \cap Range(databaseDetectors[db].dependencies) = {}

\* C9: for every database detector that declares docker services, a project
\* whose compose file declares one of them and whose manifests declare no
\* dependency of that database has the database in databases, scored below
\* 1.0 and at or above 0.7.
C9_DockerServiceSignal ==
    Returned =>
        \A db \in Range(databaseOrder) :
            ComposeDeclares(fs, db) /\ NoManifestDependency(fs, db) =>
                /\ Includes(result.databases, db)
                /\ \E e \in ScoredIn("databases") : e[2] = db /\ e[3] >= 70 /\ e[3] < 100

\* the dependency whose presence the scoring function of a detector tests
\* first, for the detectors that declare manifest dependencies
Canonical ==
    [react |-> "react", vue |-> "vue", angular |-> "@angular/core", nextjs |-> "next",
     express |-> "express", fastify |-> "fastify", koa |-> "koa",
     nestjs |-> "@nestjs/core", fastapi |-> "fastapi", django |-> "django",
     flask |-> "flask", mongodb |-> "mongoose", postgresql |-> "pg", mysql |-> "mysql",
     redis |-> "ioredis", jest |-> "jest", mocha |-> "mocha", cypress |-> "cypress",
     playwright |-> "@playwright/test", pytest |-> "pytest", webpack |-> "webpack",
     vite |-> "vite"]

HoldsCanonical ==
    /\ pc = "scored"
    /\ Has(ConfigOf(det), "dependencies")
    /\ Includes(ev.dependencies, Canonical[det.name])

\* C10 as first stated: with the canonical dependency in the bag, the score
\* is 1.0 whatever the other fields and the two gates hold.
C10_CanonicalAlwaysFull == HoldsCanonical => score = 100

\* C10: with the canonical dependency in the bag, the score is 1.0 whatever
\* the other fields and the isFrontendOnly gate hold, except that react
\* scores 0 on every bag with isBackendOnly true.
C10_CanonicalFullUnlessReactGated ==
    HoldsCanonical =>
        IF det.name = "react" /\ ev.isBackendOnly THEN score = 0 ELSE score = 100

\* C10 witness: a bag with the canonical dependency, another entry and both
\* gates true was scored 1.0.
C10_Witness ==
    /\ HoldsCanonical
    /\ det.name = "angular"
    /\ Includes(ev.configs, "angular.json")
    /\ ev.isBackendOnly
    /\ ev.isFrontendOnly
    /\ score = 100

\* the confidence the scorer of the category computed for the name
ConfidenceOf(category, name) ==
    (CHOOSE e \in scored : e[1] = category /\ e[2] = name)[3]

\* the place of the name in the declaration order of its registry table
Position(order, name) == CHOOSE i \in 1..Len(order) : order[i] = name

\* C11: the languages list is in non-increasing confidence order, two
\* languages of equal confidence stand in registry declaration order, and a
\* result returned on the normal path carries that list.
C11_LanguagesSortedStable ==
    /\ \A i \in 1..Len(languages), j \in 1..Len(languages) :
          i < j =>
             \/ ConfidenceOf("languages", languages[i]) >
                   ConfidenceOf("languages", languages[j])
             \/ /\ ConfidenceOf("languages", languages[i]) =
                      ConfidenceOf("languages", languages[j])
                /\ Position(languageOrder, languages[i]) <
                      Position(languageOrder, languages[j])
    /\ Returned => result.languages = languages

\* C11 witness: a returned result lists python ahead of javascript, against
\* declaration order, because python scored higher.
C11_Witness ==
    /\ Returned
    /\ result.languages = <<"python", "javascript">>
    /\ ConfidenceOf("languages", "python") > ConfidenceOf("languages", "javascript")

\* the list is in non-increasing order of the confidences its scorer computed
Descending(category, names) ==
    \A i \in 1..Len(names), j \in 1..Len(names) :
        i < j => ConfidenceOf(category, names[i]) >= ConfidenceOf(category, names[j])

\* C12: the accepted names of every category scorer (frontend, backend,
\* databases, testing, buildTools, deployment) are in non-increasing
\* confidence order.
C12_CategoryListsSorted ==
    \A c \in {"frontend", "backend", "databases", "testing", "buildTools", "deployment"} :
        Descending(c, results[c])

\* the names of the category lists of a result
CategoryNames(r) ==
    Range(r.frameworks) \cup Range(r.databases) \cup Range(r.testing)
    \cup Range(r.buildTools) \cup Range(r.deployment)

\* C13: in every result detect() returns, the names in patterns are exactly
\* the names in its frameworks, databases, testing, buildTools and
\* deployment lists.
C13_PatternsIsUnion ==
    result # Null => Range(result.patterns) = CategoryNames(result)

\* C14 as first stated: primary is the framework the classifier derived and
\* is never a language name.
C14_PrimaryIsDerivedFramework ==
    /\ Returned => result.primary = projectType.primary
    /\ result # Null => result.primary \notin Range(languageOrder)

\* C14: primary is the first entry of the result's languages list, the
\* empty string when no language was accepted or after a failure; the
\* framework the classifier derived is not what the result carries.
C14_PrimaryIsFirstLanguage ==
    /\ Returned =>
          result.primary = IF result.languages = <<>> THEN "" ELSE result.languages[1]
    /\ thrown => result.primary = ""

\* C14 witness: a backend-api project whose classifier derived express
\* returned javascript as primary.
C14_Witness ==
    /\ Returned
    /\ result.type = "backend-api"
    /\ projectType.primary = "express"
    /\ result.primary = "javascript"

\* C15: a second detect() call on the same unchanged tree returns the value
\* the first call returned, whatever order the glob walks list files in.
C15_SameTreeSameResult ==
    pc = "done" /\ first # Null => result = first

\* C16: for every entry of a requirements list or of a [project]
\* dependencies array, with version specifiers, an extras bracket or an
\* environment marker after the name, the name registered is the package
\* name alone.
C16_RegistersBareName ==
    pc = "registered" => registered = entry.name

\* the categories performTargetedDetection scores for every project type
CrossCutting == {"databases", "testing", "buildTools", "deployment"}

\* detect() got as far as performTargetedDetection
ReachedTargeted == projectType # Null

C18_ArchitectureWellFormed ==
    result # Null =>
        /\ result.architecture.type \in {"standard", "monorepo"}
        /\ Range(result.architecture.patterns) \subseteq {"monorepo", "microservices"}
        /\ "monorepo" \in Range(result.architecture.patterns)
              <=> result.architecture.type = "monorepo"

\* C19: every scoring function of every category returns, on every evidence
\* bag, a value between 0 and 1 (0 and 100 hundredths).
C19_ScoreInUnitInterval ==
    pc = "scored" => score >= 0 /\ score <= 100

\* C19 witness: a bag with two non-empty fields was scored 1.0.
C19_Witness ==
    /\ pc = "scored"
    /\ score = 100
    /\ Len(ev.dependencies) > 0
    /\ Len(ev.configs) > 0

\* C20: no step of detect(), on the normal or on the failure path, changes
\* the project tree.
C20_TreeNeverWritten == [][fs' = fs]_vars

\* C20 witness: detect() returned through its catch on a tree that holds
\* something.
C20_Witness ==
    /\ pc = "done"
    /\ thrown
    /\ fs # {}

\* the detection results as they stand when the i-th entry of the table is
\* processed
BeforeEntry(r, i) == ApplyExclusions(r, SubSeq(mutualExclusionOrder, 1, i - 1))

\* the key K and the names K excludes
Group(K) == {K} \cup Range(mutualExclusions[K])

\* K is the first declared key of its group among the names of the list
FirstDeclaredIn(list, K) ==
    /\ Includes(list, K)
    /\ \A j \in 1..Len(mutualExclusionOrder) :
          LET J == mutualExclusionOrder[j]
          IN  j < Position(mutualExclusionOrder, K) /\ K \in Group(J)
                 => ~Includes(list, J)

\* C21: the resolver reads the table in declaration order; every key present
\* in a category list when its entry is processed stays in the resolved list
\* and every name it excludes is gone from it, so of the accepted names of a
\* group only the first declared key survives, whatever the confidences.
C21_FirstDeclaredSurvives ==
    pc = "assemble" =>
        \A c \in Range(ResolvedCategories), i \in 1..Len(mutualExclusionOrder) :
            LET K == mutualExclusionOrder[i]
            IN  /\ Includes(BeforeEntry(results, i)[c], K) =>
                      /\ Includes(resolved[c], K)
                      /\ Range(resolved[c]) \cap Range(mutualExclusions[K]) = {}
                /\ FirstDeclaredIn(results[c], K) =>
                      Range(resolved[c]) \cap Group(K) = {K}

\* C21 witness: react and vue were both accepted, vue with the higher
\* confidence, and react alone is left in the resolved frontend list.
C21_Witness ==
    /\ pc = "assemble"
    /\ Includes(results.frontend, "react")
    /\ Includes(results.frontend, "vue")
    /\ ConfidenceOf("frontend", "vue") > ConfidenceOf("frontend", "react")
    /\ resolved.frontend = <<"react">>

\* the bags that hold one entry less than the bag, with the same gates
OneLess(bag) ==
    UNION {{[bag EXCEPT ![ListFields[k]] = SelectSeq(@, LAMBDA v : v # bag[ListFields[k]][i])] :
               i \in 1..Len(bag[ListFields[k]])} : k \in 1..Len(ListFields)}
    \cup (IF bag.packageJsonConfig THEN {[bag EXCEPT !.packageJsonConfig = FALSE]} ELSE {})

\* C22: with the gate flags fixed, adding evidence to a bag never lowers the
\* confidence the detector's scoring function returns: a scored bag scores
\* at least what each bag holding one entry less scores.
C22_AddingEvidenceNeverLowers ==
    pc = "scored" => \A less \in OneLess(ev) : Confidence(det, less) <= score

\* how many names of the recognized list are names of the set
CountIn(recognized, names) == Cardinality(Range(recognized) \cap names)

\* C23: the indicator totals are the directory weights plus 2 for every
\* recognized backend (frontend) package name that is a dependency name of
\* the manifest and 3 for every recognized Python backend framework among
\* the Python dependencies; a dependency whose name is not a recognized name
\* adds nothing.
C23_ManifestContributionExact ==
    projectType # Null =>
        LET names == IF packageData = Null THEN {} ELSE AllDeps(packageData)
            python == readPythonDependencies(fs)
            backendDirs == IF structure.hasApi \/ structure.hasControllers
                              \/ structure.hasRoutes \/ structure.hasModels
                           THEN DirWeight ELSE 0
            frontendDirs == IF structure.hasComponents \/ structure.hasPages
                               \/ structure.hasViews
                            THEN DirWeight ELSE 0
        IN  /\ projectType.scores.backendOnly =
                  backendDirs + PackageWeight * CountIn(backendPackages, names)
                              + PythonWeight * CountIn(pythonBackendPackages, python)
            /\ projectType.scores.frontendOnly =
                  frontendDirs + PackageWeight * CountIn(frontendPackages, names)

\* C24: a failure at a leaf probe never aborts detection: whatever the
\* manifest, the descriptors and the sampled files hold, detect() returns
\* the assembled result and never the canonical empty result of its catch.
C24_LeafFailureNeverAborts ==
    pc = "done" =>
        /\ ~thrown
        /\ result = Assemble(fs, languages, structure, projectType, resolved)

\* C25: of two detect() calls on one instance, interleaved at their awaits,
\* each returns what detect() returns for its own root when it runs alone:
\* the empty result exactly when a stage raises on its own tree, and
\* otherwise the result assembled from locals that are each what the stage
\* computes from the call's own tree and own earlier locals.
C25_InterleavedAsAlone ==
    other # Null =>
        /\ pc = "done" => thrown = Raises(fs)
        /\ pc = "done" /\ thrown => result = getEmptyResult
        /\ pc = "done" /\ ~thrown =>
              /\ languages = detectLanguages(fs)
              /\ structure = analyzeProjectStructure(fs)
              /\ packageData = readPackageJson(fs)
              /\ projectType = determineProjectType(fs, structure, packageData)
              /\ results = performTargetedDetection(fs, projectType, packageData)
              /\ resolved = resolveConflicts(results)
              /\ result = Assemble(fs, languages, structure, projectType, resolved)
        /\ other.pc = "done" => other.result # Null

\* C25 witness: both calls returned after each was suspended midway while
\* the other was midway too, one through the catch and one with a framework.
C25_Witness ==
    /\ other # Null
    /\ pc = "done"
    /\ other.pc = "done"
    /\ other.overlapped
    /\ thrown # other.thrown
    /\ result # other.result

\* the text of .env or of .env.example holds the pattern
InSomeEnvFile(tree, pattern) ==
    \E i \in 1..Len(EnvFiles) :
        fileExists(tree, EnvFiles[i]) /\ TextIncludes(tree, EnvFiles[i], pattern)

\* C26: the connection-string evidence of every database detector is the
\* union of the matches found in .env and in .env.example, so a MongoDB
\* connection string in .env has mongodb detected whether or not a
\* .env.example file exists as well.
C26_EnvEvidenceIsUnion ==
    calls["databases"] = 1 =>
        /\ \A i \in 1..Len(databaseOrder) :
              LET config == databaseDetectors[databaseOrder[i]]
              IN  Has(config, "connectionStrings") =>
                     databaseEvidence(fs, config, packageData,
                                      readPythonDependencies(fs)).connectionStrings
                        = SelectSeq(config.connectionStrings,
                                    LAMBDA conn : InSomeEnvFile(fs, conn))
        /\ (\E conn \in Range(databaseDetectors["mongodb"].connectionStrings) :
               conn \in Of(fs, "env"))
              => Includes(results.databases, "mongodb")

\* the manifest lists the TypeScript compiler or a type package
ListsTypeScript(tree) ==
    \E dep \in Of(tree, "dep") \cup Of(tree, "devdep") :
        \E i \in 1..Len(languageDetectors["typescript"].packageIndicators) :
            StrIncludes(dep, languageDetectors["typescript"].packageIndicators[i])

\* C27: a project whose manifest lists typescript or an @types/ package
\* among its dependencies or devDependencies has typescript in languages,
\* scored 0.9 by the package-indicator branch when there is no tsconfig.json.
C27_PackageIndicatorDetectsTypeScript ==
    pc = "structure" /\ ListsTypeScript(fs) /\ ~fileExists(fs, "tsconfig.json") =>
        /\ Includes(languages, "typescript")
        /\ <<"languages", "typescript", 90, TRUE>> \in scored

\* C28: whenever a directory named k8s or kubernetes exists under the root,
\* the deployment list of the returned result holds kubernetes, scored 0.9
\* by the file-evidence branch.
C28_KubernetesDirectoryDetected ==
    Returned /\ (dirExists(fs, "k8s") \/ dirExists(fs, "kubernetes")) =>
        /\ Includes(result.deployment, "kubernetes")
        /\ <<"deployment", "kubernetes", 90, TRUE>> \in scored

\* C29: the derived type and the two gates agree: backend-api only with
\* isBackendOnly, frontend-application only with isFrontendOnly,
\* full-stack-application only with both gates false, library and unknown
\* only when both side totals are 0; cli-tool goes with any gate values.
C29_TypeAgreesWithGates ==
    pc = "derived" =>
        /\ derived = "backend-api" => IsBackendOnly(ind)
        /\ derived = "frontend-application" => IsFrontendOnly(ind)
        /\ derived = "full-stack-application" =>
              ~IsBackendOnly(ind) /\ ~IsFrontendOnly(ind)
        /\ derived \in {"library", "unknown"} =>
              ind.backendOnly = 0 /\ ind.frontendOnly = 0
        /\ ~(IsBackendOnly(ind) /\ IsFrontendOnly(ind))

\* C29 witness: totals with the entry-point weight and a backend side only
\* were derived to cli-tool while the backend gate holds.
C29_Witness ==
    /\ pc = "derived"
    /\ derived = "cli-tool"
    /\ IsBackendOnly(ind)
    /\ ~IsFrontendOnly(ind)
    /\ ind.library > 0

\* sub is what is left of s when some of its entries are taken out
RECURSIVE IsSublist(_, _)
IsSublist(sub, s) ==
    IF sub = <<>> THEN TRUE
    ELSE IF s = <<>> THEN FALSE
    ELSE IF Head(sub) = Head(s) THEN IsSublist(Tail(sub), Tail(s))
    ELSE IsSublist(sub, Tail(s))

\* C30: resolveConflicts only removes and is idempotent: each category list
\* of the resolved record is an order-preserving sub-list of the list it was
\* given, resolving the resolved record again changes nothing, and the
\* databases and deployment lists come back as they were given.
C30_ResolveOnlyRemovesIdempotent ==
    pc = "resolved" =>
        /\ \A c \in ListCategories : IsSublist(resolved[c], results[c])
        /\ resolveConflicts(resolved) = resolved
        /\ resolved.databases = results.databases
        /\ resolved.deployment = results.deployment

\* C30 witness: a list with a key after a name it excludes was resolved to
\* the key alone.
C30_Witness ==
    /\ pc = "resolved"
    /\ results.frontend = <<"vue", "react">>
    /\ resolved.frontend = <<"react">>

====
